---- MODULE Spec2Model ----
(***************************************************************************)
(* Model of EmailService.parseVoiceSearchQuery                             *)
(* (src/src/services/emailService.js, lines 893-2112): the voice-search    *)
(* query parser.  Texts are strings, regular expressions are syntax trees  *)
(* matched by a backtracking matcher with JavaScript's priorities, and a   *)
(* Date is a UTC instant (day number, millisecond of day) read through a   *)
(* fixed-offset local time zone.                                           *)
(***************************************************************************)
EXTENDS Integers, Sequences, FiniteSets, TLC

(***************************************************************************)
(* Characters                                                              *)
(***************************************************************************)
Chars(s) == {SubSeq(s, i, i) : i \in 1..Len(s)}
LowerStr == "abcdefghijklmnopqrstuvwxyz"
UpperStr == "ABCDEFGHIJKLMNOPQRSTUVWXYZ"
DigitStr == "0123456789"
LowerLetters == Chars(LowerStr)
UpperLetters == Chars(UpperStr)
Letters == LowerLetters \cup UpperLetters
Digits == Chars(DigitStr)
\* the characters of \s that a query can hold
WhiteSpace == {" ", "\t", "\n", "\r", "\f"}
WordChars == Letters \cup Digits \cup {"_"}
At(s, i) == SubSeq(s, i, i)

\* String.prototype.toLowerCase, one character
LowerChar(c) ==
  IF c \in UpperLetters
  THEN LET i == CHOOSE j \in 1..Len(UpperStr) : At(UpperStr, j) = c
       IN  At(LowerStr, i)
  ELSE c

RECURSIVE ToLowerCase(_)
ToLowerCase(s) ==
  IF Len(s) = 0 THEN s ELSE LowerChar(At(s, 1)) \o ToLowerCase(Tail(s))

\* String.prototype.trim
Trim(s) ==
  LET keep == {i \in 1..Len(s) : At(s, i) \notin WhiteSpace}
  IN  IF keep = {} THEN ""
      ELSE LET lo == CHOOSE i \in keep : \A j \in keep : i <= j
               hi == CHOOSE i \in keep : \A j \in keep : j <= i
           IN  SubSeq(s, lo, hi)

\* String.prototype.includes
Includes(s, sub) ==
  \E i \in 0..(Len(s) - Len(sub)) : SubSeq(s, i + 1, i + Len(sub)) = sub

(***************************************************************************)
(* Regular expressions.  A pattern is a tree of nodes; Exec matches it the *)
(* way a backtracking engine does: alternatives left to right, greedy      *)
(* quantifiers longest first, lazy ones shortest first, and the first      *)
(* complete match wins.  Positions are 0-based offsets as in JavaScript.   *)
(***************************************************************************)
Lit(s) == [t |-> "lit", s |-> s]
Cls(set) == [t |-> "cls", neg |-> FALSE, set |-> set]
NCls(set) == [t |-> "cls", neg |-> TRUE, set |-> set]
\* . matches anything but a line terminator
Dot == NCls({"\n", "\r"})
Cat(xs) == [t |-> "seq", xs |-> xs]
Alt(xs) == [t |-> "alt", xs |-> xs]
\* c{lo,hi} over a one-character node c; hi = -1 is unbounded
Rep(c, lo, hi, lazy) == [t |-> "rep", c |-> c, lo |-> lo, hi |-> hi, lazy |-> lazy]
Plus(c) == Rep(c, 1, -1, FALSE)
LazyPlus(c) == Rep(c, 1, -1, TRUE)
Empty == Cat(<<>>)
Opt(x) == Alt(<<x, Empty>>)
Grp(i, x) == [t |-> "grp", i |-> i, x |-> x]
BRef(i) == [t |-> "bref", i |-> i]
WB == [t |-> "wb"]
EOS == [t |-> "eos"]
WS == Cls(WhiteSpace)
Digit == Cls(Digits)
OneOf(ws) == Alt([i \in 1..Len(ws) |-> Lit(ws[i])])

NoCaps == <<<<-1, -1>>, <<-1, -1>>, <<-1, -1>>>>
NoMatch == [ok |-> FALSE, s |-> 0, e |-> 0, caps |-> NoCaps]

ClsHas(c, ch) == IF c.neg THEN ch \notin c.set ELSE ch \in c.set
IsWordAt(text, i) == i >= 1 /\ i <= Len(text) /\ At(text, i) \in WordChars
\* the longest run of characters of class c from offset p, at most hi
RunLen(text, c, p, hi) ==
  LET lim == IF hi < 0 \/ p + hi > Len(text) THEN Len(text) - p ELSE hi
      bad == {j \in 1..lim : ~ClsHas(c, At(text, p + j))}
  IN  IF bad = {} THEN lim
      ELSE (CHOOSE j \in bad : \A b \in bad : j <= b) - 1

RECURSIVE MatchAt(_, _, _, _), TryAlt(_, _, _, _, _, _), TryCnt(_, _, _, _, _, _, _)
\* match the node list k from offset p
MatchAt(text, k, p, caps) ==
  IF Len(k) = 0 THEN [ok |-> TRUE, s |-> 0, e |-> p, caps |-> caps]
  ELSE
    LET h == Head(k)
        r == Tail(k)
    IN  CASE h.t = "lit" ->
               IF p + Len(h.s) <= Len(text) /\ SubSeq(text, p + 1, p + Len(h.s)) = h.s
               THEN MatchAt(text, r, p + Len(h.s), caps)
               ELSE NoMatch
          [] h.t = "cls" ->
               IF p < Len(text) /\ ClsHas(h, At(text, p + 1))
               THEN MatchAt(text, r, p + 1, caps)
               ELSE NoMatch
          [] h.t = "seq" -> MatchAt(text, h.xs \o r, p, caps)
          [] h.t = "alt" -> TryAlt(text, h.xs, 1, r, p, caps)
          [] h.t = "rep" ->
               LET run == RunLen(text, h.c, p, h.hi)
               IN  IF run < h.lo THEN NoMatch
                   ELSE IF h.lazy THEN TryCnt(text, r, p, caps, h.lo, run, 1)
                   ELSE TryCnt(text, r, p, caps, run, h.lo, -1)
          [] h.t = "grp" ->
               MatchAt(text, <<h.x, [t |-> "end", i |-> h.i, from |-> p]>> \o r, p, caps)
          [] h.t = "end" ->
               MatchAt(text, r, p, [caps EXCEPT ![h.i] = <<h.from, p>>])
          [] h.t = "bref" ->
               LET w == IF caps[h.i][1] < 0 THEN ""
                        ELSE SubSeq(text, caps[h.i][1] + 1, caps[h.i][2])
               IN  IF p + Len(w) <= Len(text) /\ SubSeq(text, p + 1, p + Len(w)) = w
                   THEN MatchAt(text, r, p + Len(w), caps)
                   ELSE NoMatch
          [] h.t = "wb" ->
               IF IsWordAt(text, p) # IsWordAt(text, p + 1)
               THEN MatchAt(text, r, p, caps)
               ELSE NoMatch
          [] h.t = "eos" ->
               IF p = Len(text) THEN MatchAt(text, r, p, caps) ELSE NoMatch

TryAlt(text, xs, i, r, p, caps) ==
  IF i > Len(xs) THEN NoMatch
  ELSE LET m == MatchAt(text, <<xs[i]>> \o r, p, caps)
       IN  IF m.ok THEN m ELSE TryAlt(text, xs, i + 1, r, p, caps)

\* repetition counts from..to in steps of step, the first that lets the rest match
TryCnt(text, r, p, caps, from, to, step) ==
  LET m == MatchAt(text, r, p + from, caps)
  IN  IF m.ok THEN m
      ELSE IF from = to THEN NoMatch
      ELSE TryCnt(text, r, p, caps, from + step, to, step)

\* the match that starts at the least of the offsets starts, if there is one
ExecAt(text, re, starts) ==
  IF starts = {} THEN NoMatch
  ELSE [MatchAt(text, <<re>>, CHOOSE a \in starts : \A b \in starts : a <= b, NoCaps)
          EXCEPT !.s = CHOOSE a \in starts : \A b \in starts : a <= b]
\* RegExp.prototype.exec from lastIndex p: the leftmost match at or after p
ExecFrom(text, re, p) ==
  ExecAt(text, re, {q \in p..Len(text) : MatchAt(text, <<re>>, q, NoCaps).ok})

\* String.prototype.match with a non-global pattern
Match(text, re) == ExecFrom(text, re, 0)

\* lastIndex after the match m: one further after an empty match
NextIndex(m) == IF m.e = m.s THEN m.e + 1 ELSE m.e
RECURSIVE MatchAllFrom(_, _, _), MatchAllWith(_, _, _)
\* every match of a global pattern, left to right, each starting where the
\* previous one ended; m is the match found from the current lastIndex
MatchAllWith(text, re, m) ==
  IF ~m.ok THEN <<>> ELSE <<m>> \o MatchAllFrom(text, re, NextIndex(m))
MatchAllFrom(text, re, p) == MatchAllWith(text, re, ExecFrom(text, re, p))

MatchAll(text, re) == MatchAllFrom(text, re, 0)

\* the text of the whole match and of capture group i ("" when it did not take part)
Whole(text, m) == SubSeq(text, m.s + 1, m.e)
HasGroup(m, i) == m.caps[i][1] >= 0
Group(text, m, i) ==
  IF HasGroup(m, i) THEN SubSeq(text, m.caps[i][1] + 1, m.caps[i][2]) ELSE ""

(***************************************************************************)
(* JavaScript Date.  A Date holds a UTC instant, here the day number since *)
(* 1970-01-01 and the millisecond of that day, or is the Invalid Date      *)
(* (ok = FALSE).  Getters and setters work on local time, which is the     *)
(* instant shifted by the zone offset tz (minutes east of UTC).            *)
(***************************************************************************)
MsPerDay == 24 * 60 * 60 * 1000
\* ECMAScript TimeClip: |time| <= 8.64e15 ms, which is 100,000,000 days
MaxDateDay == 10000 * 10000
InvalidDate == [ok |-> FALSE, d |-> 0, ms |-> 0]

\* an instant from a day count and a millisecond count that may overflow the day
MkInstant(d, ms) ==
  LET dd == d + (ms \div MsPerDay)
      mm == ms % MsPerDay
  IN  IF dd < -MaxDateDay \/ dd > MaxDateDay \/ (dd = MaxDateDay /\ mm > 0)
      THEN InvalidDate
      ELSE [ok |-> TRUE, d |-> dd, ms |-> mm]

\* day number of a civil date, month 1..12 (proleptic Gregorian calendar)
DaysFromCivil(y, m, d) ==
  LET y2 == IF m <= 2 THEN y - 1 ELSE y
      era == y2 \div 400
      yoe == y2 - era * 400
      mp == (m + 9) % 12
      doy == ((153 * mp + 2) \div 5) + d - 1
      doe == yoe * 365 + (yoe \div 4) - (yoe \div 100) + doy
  IN  era * 146097 + doe - 719468

\* civil date of a day number
\* era is the 400-year cycle, doe the day of the era, yoe the year of the era,
\* doy the day of the year counted from March 1, mp the month counted from March
YearOfEra(doe) == (doe - (doe \div 1460) + (doe \div 36524) - (doe \div 146096)) \div 365
DayOfYear(doe, yoe) == doe - (365 * yoe + (yoe \div 4) - (yoe \div 100))
CivilOfMonth(era, yoe, doy, mp) ==
  [y |-> yoe + era * 400 + (IF mp < 10 THEN 0 ELSE 1),
   m |-> IF mp < 10 THEN mp + 3 ELSE mp - 9,
   d |-> doy - ((153 * mp + 2) \div 5) + 1]
CivilOfYear(era, yoe, doy) == CivilOfMonth(era, yoe, doy, (5 * doy + 2) \div 153)
CivilOfEra(era, doe, yoe) == CivilOfYear(era, yoe, DayOfYear(doe, yoe))
CivilFromDays(z) ==
  CivilOfEra((z + 719468) \div 146097, (z + 719468) % 146097, YearOfEra((z + 719468) % 146097))

\* ECMAScript MakeDay: month is 0-based and may be out of 0..11, date may be any integer
MakeDay(year, month, date) ==
  DaysFromCivil(year + (month \div 12), (month % 12) + 1, 1) + date - 1
MakeTime(h, mi, s, ms) == ((h * 60 + mi) * 60 + s) * 1000 + ms

\* local day and millisecond of day of a valid Date
LocalDay(tz, t) == t.d + ((t.ms + tz * 60000) \div MsPerDay)
LocalMs(tz, t) == (t.ms + tz * 60000) % MsPerDay
\* the Date of a local day and local millisecond count
FromLocal(tz, day, ms) == MkInstant(day, ms - tz * 60000)

GetFullYear(tz, t) == CivilFromDays(LocalDay(tz, t)).y
GetMonth(tz, t) == CivilFromDays(LocalDay(tz, t)).m - 1
GetDate(tz, t) == CivilFromDays(LocalDay(tz, t)).d
GetDay(tz, t) == (LocalDay(tz, t) + 4) % 7
GetSeconds(tz, t) == (LocalMs(tz, t) \div 1000) % 60

\* new Date(year, month, date, hours, minutes, seconds): local time; a year 0..99 is 1900+year
NewDate(tz, year, month, date, h, mi, s) ==
  LET y == IF year >= 0 /\ year <= 99 THEN 1900 + year ELSE year
  IN  FromLocal(tz, MakeDay(y, month, date), MakeTime(h, mi, s, 0))

SetDate(tz, t, date) ==
  IF ~t.ok THEN InvalidDate
  ELSE FromLocal(tz, MakeDay(GetFullYear(tz, t), GetMonth(tz, t), date), LocalMs(tz, t))
SetHours(tz, t, h, mi, s, ms) ==
  IF ~t.ok THEN InvalidDate
  ELSE FromLocal(tz, LocalDay(tz, t), MakeTime(h, mi, s, ms))
SetMonth(tz, t, month) ==
  IF ~t.ok THEN InvalidDate
  ELSE FromLocal(tz, MakeDay(GetFullYear(tz, t), month, GetDate(tz, t)), LocalMs(tz, t))
\* a variant that moves to the month and keeps the day of the month
SetMonthKeepingDate(tz, t, month, date) == SetMonth(tz, t, month)
\* line 1835: setMonth(month, date)
SetMonthDate(tz, t, month, date) ==
  IF ~t.ok THEN InvalidDate
  ELSE FromLocal(tz, MakeDay(GetFullYear(tz, t), month, date), LocalMs(tz, t))
SetFullYear(tz, t, year) ==
  IF ~t.ok THEN InvalidDate
  ELSE FromLocal(tz, MakeDay(year, GetMonth(tz, t), GetDate(tz, t)), LocalMs(tz, t))
SetSeconds(tz, t, s) ==
  IF ~t.ok THEN InvalidDate
  ELSE LET lms == LocalMs(tz, t)
       IN  FromLocal(tz, LocalDay(tz, t),
                     MakeTime(lms \div 3600000, (lms \div 60000) % 60, s, lms % 1000))

\* a.getTime() - b.getTime() compared with 0, for valid Dates
Before(a, b) == a.d < b.d \/ (a.d = b.d /\ a.ms < b.ms)
NotAfter(a, b) == a.d < b.d \/ (a.d = b.d /\ a.ms <= b.ms)

\* Date.prototype.toISOString: the UTC fields of the instant, as written in
\* "YYYY-MM-DDTHH:mm:ss.sssZ"; it throws a RangeError for the Invalid Date
ToISOString(t) ==
  LET c == CivilFromDays(t.d)
  IN  [y |-> c.y, mo |-> c.m, d |-> c.d, h |-> t.ms \div 3600000,
       mi |-> (t.ms \div 60000) % 60, s |-> (t.ms \div 1000) % 60, ms |-> t.ms % 1000]
\* the instant an ISO string denotes (what new Date(iso) gives back)
IsoInstant(iso) ==
  MkInstant(DaysFromCivil(iso.y, iso.mo, iso.d), MakeTime(iso.h, iso.mi, iso.s, iso.ms))

(***************************************************************************)
(* The patterns of parseVoiceSearchQuery, in source order.  Flag i is      *)
(* covered by matching against the lowercased text.                        *)
(***************************************************************************)
Quote == Cls({"\"", "'"})
NotQuote == NCls({"\"", "'"})
OptQuote == Opt(Quote)
DateSep == Cls({"-", "/"})
Sp == Plus(WS)
S_(w) == Cat(<<Lit(w), Opt(Lit("s"))>>)
AlnumDotDash == Cls(Letters \cup Digits \cup {".", "-"})
NameChar == Cls(Letters \cup Digits \cup WhiteSpace \cup {".", "&", "_", "-"})
Tld == Rep(Cls(Letters), 2, -1, FALSE)
Domain == Cat(<<Plus(AlnumDotDash), Lit("."), Tld>>)

\* lines 957-961
specificDatePatterns ==
  << Grp(1, Cat(<<Rep(Digit, 4, 4, FALSE), DateSep, Rep(Digit, 1, 2, FALSE), DateSep,
                  Rep(Digit, 1, 2, FALSE)>>)),
     Grp(1, Cat(<<Rep(Digit, 1, 2, FALSE), DateSep, Rep(Digit, 1, 2, FALSE), DateSep,
                  Rep(Digit, 4, 4, FALSE)>>)),
     Grp(1, Cat(<<Rep(Digit, 1, 2, FALSE), DateSep, Rep(Digit, 1, 2, FALSE), DateSep,
                  Rep(Digit, 2, 2, FALSE)>>)) >>

MonthNames ==
  << "january", "february", "march", "april", "may", "june", "july", "august",
     "september", "october", "november", "december" >>
\* lines 985-986
monthPattern ==
  Cat(<< Grp(1, OneOf(MonthNames)),
         Opt(Cat(<<Sp, Grp(2, Rep(Digit, 1, 2, FALSE)), Opt(OneOf(<<"st", "nd", "rd", "th">>))>>)),
         Opt(Cat(<<Opt(Lit(",")), Rep(WS, 0, -1, FALSE), Grp(3, Rep(Digit, 4, 4, FALSE))>>)) >>)

PastWord == OneOf(<<"last", "past", "previous">>)
LastN(unit) == Cat(<<WB, PastWord, Sp, Grp(1, Plus(Digit)), Sp, S_(unit), WB>>)
NAgo(unit) == Cat(<<WB, Grp(1, Plus(Digit)), Sp, S_(unit), Sp, Lit("ago"), WB>>)
Named(words) == Cat(<<WB, Grp(1, Cat(words)), WB>>)
DayNames ==
  << "sunday", "monday", "tuesday", "wednesday", "thursday", "friday", "saturday" >>
\* the regex of each dateRangePatterns entry, lines 1044-1447
dateRangePatterns ==
  << Named(<<Lit("last"), Sp, Lit("week")>>),
     Named(<<Lit("this"), Sp, Lit("week")>>),
     Named(<<Lit("last"), Sp, Lit("month")>>),
     Named(<<Lit("this"), Sp, Lit("month")>>),
     Named(<<Lit("last"), Sp, Lit("year")>>),
     Named(<<Lit("this"), Sp, Lit("year")>>),
     Named(<<Lit("last"), Sp, Lit("quarter")>>),
     LastN("day"),
     Named(<<OneOf(<<"recent", "recently", "past few days">>)>>),
     Named(<<OneOf(<<"last few weeks", "past few weeks", "recent weeks">>)>>),
     Named(<<OneOf(<<"last few months", "past few months", "recent months">>)>>),
     LastN("week"),
     LastN("month"),
     LastN("year"),
     NAgo("day"),
     NAgo("week"),
     NAgo("month"),
     Named(<<Lit("today")>>),
     Named(<<Lit("yesterday")>>),
     Named(<<OneOf(<<"monday", "tuesday", "wednesday", "thursday", "friday", "saturday",
                     "sunday">>)>>) >>

\* lines 1473-1474
betweenPattern ==
  Cat(<< WB, OneOf(<<"between", "from">>), Sp, Grp(1, LazyPlus(Dot)), Sp,
         OneOf(<<"and", "to">>), Sp, Grp(2, LazyPlus(Dot)), Alt(<<WB, EOS>>) >>)

\* the regex of each relativeTimePatterns entry, lines 1661-1745
relativeTimePatterns ==
  << Named(<<Lit("today")>>),
     Named(<<Lit("yesterday")>>),
     Named(<<Lit("last"), Sp, Lit("week")>>),
     Named(<<Lit("last"), Sp, Lit("month")>>),
     Named(<<Lit("last"), Sp, Lit("year")>>),
     Named(<<Lit("this"), Sp, Lit("week")>>),
     Named(<<Lit("this"), Sp, Lit("month")>>),
     Named(<<Lit("this"), Sp, Lit("year")>>),
     NAgo("day"),
     NAgo("week"),
     NAgo("month") >>

\* (?:\s+in|\s+from|\s+before|\s+after|\s+since|$)
KeywordEnd ==
  Alt(<< Cat(<<Sp, Lit("in")>>), Cat(<<Sp, Lit("from")>>), Cat(<<Sp, Lit("before")>>),
         Cat(<<Sp, Lit("after")>>), Cat(<<Sp, Lit("since")>>), EOS >>)
\* (?:\s+in|\s+and|\s+with|\s+containing|\s+about|\s+before|\s+after|\s+since|$)
SenderEnd ==
  Alt(<< Cat(<<Sp, Lit("in")>>), Cat(<<Sp, Lit("and")>>), Cat(<<Sp, Lit("with")>>),
         Cat(<<Sp, Lit("containing")>>), Cat(<<Sp, Lit("about")>>),
         Cat(<<Sp, Lit("before")>>), Cat(<<Sp, Lit("after")>>), Cat(<<Sp, Lit("since")>>),
         EOS >>)
TopicWord ==
  OneOf(<<"about", "containing", "with", "related to", "topic", "subject", "body", "text",
          "content", "mentioning">>)
Includes_ == Cat(<<Lit("include"), Opt(Lit("s"))>>)
Contains_ == Cat(<<Lit("contain"), Opt(Lit("s"))>>)
HasVerb == Alt(<<Lit("containing"), Lit("has"), Includes_, Lit("with")>>)
ContainsVerb == Alt(<<Contains_, Lit("has"), Includes_>>)
SubjectWord == OneOf(<<"subject", "title", "headline">>)
BodyWord == OneOf(<<"body", "content", "text">>)
BodyWord4 == OneOf(<<"body", "content", "text", "message">>)
OptThe == Opt(Cat(<<Lit("the"), Sp>>))
InWithin == OneOf(<<"in", "within">>)
\* ["']?([^"']+?)["']?
QuotedLazy == Cat(<<OptQuote, Grp(1, LazyPlus(NotQuote)), OptQuote>>)

\* lines 1891-1914
keywordPatterns ==
  << Cat(<<TopicWord, Sp, Quote, Grp(1, Plus(NotQuote)), Quote>>),
     Cat(<<TopicWord, Sp, Grp(1, Plus(NCls({",", ".", ";"})))>>),
     Cat(<<OneOf(<<"search for", "find", "look for", "show me">>), Sp, Grp(1, LazyPlus(Dot)),
           KeywordEnd>>),
     Cat(<<S_("email"), Lit(" "),
           OneOf(<<"about", "on", "regarding", "concerning", "discussing">>), Sp,
           Grp(1, LazyPlus(Dot)), KeywordEnd>>),
     Cat(<<Lit("with "), OneOf(<<"subject", "title">>), Sp, Grp(1, LazyPlus(Dot)),
           KeywordEnd>>),
     Cat(<<HasVerb, Sp, OptThe,
           Alt(<<S_("word"), Lit("text"), Lit("content"), Lit("phrase"), S_("term")>>), Sp,
           QuotedLazy, KeywordEnd>>),
     Cat(<<BodyWord, Sp, HasVerb, Sp, QuotedLazy, KeywordEnd>>),
     Cat(<<SubjectWord, Sp, HasVerb, Sp, QuotedLazy, KeywordEnd>>),
     Cat(<<ContainsVerb, Sp, QuotedLazy, Sp, InWithin, Sp, OptThe, BodyWord>>),
     Cat(<<ContainsVerb, Sp, QuotedLazy, Sp, InWithin, Sp, OptThe, SubjectWord>>),
     Cat(<<Alt(<<Cat(<<Lit("key"), Rep(WS, 0, -1, FALSE), S_("word")>>), S_("term"),
                 S_("phrase")>>), Sp, QuotedLazy, KeywordEnd>>) >>

\* lines 1917-1921
subjectKeywordPatterns ==
  << Cat(<<SubjectWord, Sp,
           Alt(<<Lit("containing"), Lit("has"), Includes_, Lit("with"), Lit("like"), Lit("is"),
                 Cat(<<Lit("equal"), Opt(Lit("s"))>>)>>), Sp, QuotedLazy, KeywordEnd>>),
     Cat(<<Alt(<<Lit("in"), Cat(<<Lit("with"), Opt(Lit("in"))>>)>>), Sp, OptThe, SubjectWord,
           Sp, QuotedLazy>>),
     Cat(<<Alt(<<Lit("containing"), Lit("has"), Includes_>>), Sp, QuotedLazy, Sp, InWithin,
           Sp, OptThe, SubjectWord>>) >>

\* lines 1924-1928
bodyKeywordPatterns ==
  << Cat(<<BodyWord4, Sp,
           Alt(<<Lit("containing"), Lit("has"), Includes_, Lit("with"), Lit("like")>>), Sp,
           QuotedLazy, KeywordEnd>>),
     Cat(<<Alt(<<Lit("in"), Cat(<<Lit("with"), Opt(Lit("in"))>>)>>), Sp, OptThe, BodyWord4,
           Sp, QuotedLazy>>),
     Cat(<<Alt(<<Lit("containing"), Lit("has"), Includes_>>), Sp, QuotedLazy, Sp, InWithin,
           Sp, OptThe, BodyWord4>>) >>

FromBy == OneOf(<<"from", "by", "sent by">>)
\* lines 1931-1946
senderPatterns ==
  << Cat(<<WB, FromBy, Sp,
           Grp(1, Cat(<<Plus(Cls(Letters \cup Digits \cup {".", "_", "%", "+", "-"})), Lit("@"),
                        Domain>>)), WB>>),
     Cat(<<WB, FromBy, Sp, Grp(1, OptQuote), Grp(2, Plus(NameChar)), BRef(1)>>),
     Cat(<<WB, FromBy, Sp, Grp(1, Domain), WB>>),
     Cat(<<WB, OneOf(<<"from", "by", "sent by", "sender is">>), Sp, Grp(1, LazyPlus(Dot)),
           SenderEnd>>),
     Cat(<<WB, OneOf(<<"authored", "written", "composed", "created">>), Sp, Lit("by"), Sp,
           Grp(1, LazyPlus(Dot)), SenderEnd>>),
     Cat(<<WB, OneOf(<<"from", "by">>), Sp,
           Opt(OneOf(<<"someone", "anyone", "people", "person">>)), Sp,
           OneOf(<<"at", "@", "from">>), Sp, Grp(1, Domain), WB>>),
     Cat(<<WB, OneOf(<<"people", "someone", "anyone">>), Sp, OneOf(<<"from", "at">>), Sp,
           Grp(1, Plus(NameChar)), Alt(<<Sp, WB, EOS>>)>>) >>

\* line 2026
quotedTextPattern == Cat(<<Quote, Grp(1, Plus(NotQuote)), Quote>>)

\* line 2067: the filter words removed by the cleaned-text fallback
filterWordPattern ==
  Alt(<< Lit("search"), Lit("find"), Lit("show"), Lit("look for"), Lit("get"), S_("email"),
         S_("message"), Lit("mail"), Lit("in"), Lit("inbox"), Lit("folder"), Lit("from"),
         Lit("before"), Lit("after"), Lit("between"), Lit("since"), Lit("containing"),
         Lit("about"), Lit("with"), Lit("related"), Lit("to"), Lit("topic"), Lit("subject") >>)
\* line 2070
punctuationPattern == Cls({",", ".", ";", ":", "!", "?"})
\* line 2071
spacesPattern == Plus(WS)

\* lines 2083-2088
limitPatterns ==
  << Cat(<<WB, Grp(1, OneOf(<<"top", "first", "latest", "recent", "last", "newest">>)), Sp,
           Grp(2, Plus(Digit)), WB>>),
     Cat(<<WB, Grp(1, Plus(Digit)), Sp,
           Grp(2, Alt(<<S_("email"), S_("message"), S_("result"), S_("item")>>)), WB>>),
     Cat(<<WB, Lit("limit"), Sp, Opt(Cat(<<Lit("to"), Sp>>)), Grp(1, Plus(Digit)), WB>>),
     Cat(<<WB, Lit("only"), Sp, Grp(1, Plus(Digit)), WB>>) >>

(***************************************************************************)
(* Small helpers                                                           *)
(***************************************************************************)
DigitVal(c) == (CHOOSE i \in 1..Len(DigitStr) : At(DigitStr, i) = c) - 1
RECURSIVE ParseInt(_)
\* parseInt of a string of digits
ParseInt(s) ==
  IF Len(s) = 0 THEN 0
  ELSE 10 * ParseInt(SubSeq(s, 1, Len(s) - 1)) + DigitVal(At(s, Len(s)))

RECURSIVE Flat(_)
Flat(ss) == IF Len(ss) = 0 THEN <<>> ELSE Head(ss) \o Flat(Tail(ss))

\* an optional string and an optional ISO date string (null when set is FALSE)
NullStr == [set |-> FALSE, v |-> ""]
SomeStr(v) == [set |-> TRUE, v |-> v]
IsoZero == [y |-> 0, mo |-> 0, d |-> 0, h |-> 0, mi |-> 0, s |-> 0, ms |-> 0]
NullIso == [set |-> FALSE, v |-> IsoZero]
SomeIso(t) == [set |-> TRUE, v |-> ToISOString(t)]

(***************************************************************************)
(* new Date(string) for the strings the three numeric date patterns can    *)
(* match: "yyyy-mm-dd" with two-digit month and day is the ISO date form,  *)
(* read as UTC midnight; every other shape goes to the engine's legacy     *)
(* parser (V8's): three numbers, year first when the first number is not a *)
(* day of month, else month/day/year, a year 0..49 being 2000+year and     *)
(* 50..99 being 1900+year, read as local midnight.                         *)
(***************************************************************************)
threeNumbers ==
  Cat(<<Grp(1, Plus(Digit)), DateSep, Grp(2, Plus(Digit)), DateSep, Grp(3, Plus(Digit))>>)
IsDayNum(n) == n >= 1 /\ n <= 31
IsMonthNum(n) == n >= 1 /\ n <= 12
\* the character that follows capture group i of m
SepAfter(str, m, i) == At(str, m.caps[i][2] + 1)
\* the Date of three numbers in written order; iso is TRUE for the ISO date form
DateOfNumbers(tz, iso, n1, n2, n3) ==
  LET ymd == ~IsDayNum(n1)
      yr == IF ymd THEN n1 ELSE n3
      mo == IF ymd THEN n2 ELSE n1
      dy == IF ymd THEN n3 ELSE n2
      year == IF iso THEN yr
              ELSE IF yr >= 0 /\ yr <= 49 THEN 2000 + yr
              ELSE IF yr >= 50 /\ yr <= 99 THEN 1900 + yr
              ELSE yr
  IN  IF ~IsMonthNum(mo) \/ ~IsDayNum(dy) THEN InvalidDate
      ELSE IF iso THEN MkInstant(MakeDay(year, mo - 1, dy), 0)
      ELSE FromLocal(tz, MakeDay(year, mo - 1, dy), 0)
DateOfMatch(tz, str, m) ==
  IF ~m.ok THEN InvalidDate
  ELSE DateOfNumbers(tz,
                     /\ Len(Group(str, m, 1)) = 4 /\ SepAfter(str, m, 1) = "-"
                     /\ Len(Group(str, m, 2)) = 2 /\ SepAfter(str, m, 2) = "-"
                     /\ Len(Group(str, m, 3)) = 2,
                     ParseInt(Group(str, m, 1)), ParseInt(Group(str, m, 2)),
                     ParseInt(Group(str, m, 3)))
DateParse(tz, str) == DateOfMatch(tz, str, Match(str, threeNumbers))

(***************************************************************************)
(* createDateRange and the handlers of dateRangePatterns.  A handler's     *)
(* result has ok = FALSE when toISOString throws on an Invalid Date: the   *)
(* loop at lines 1451-1469 catches it and goes on to the next entry.       *)
(***************************************************************************)
NoRange == [ok |-> FALSE, startDate |-> IsoZero, endDate |-> IsoZero]
\* a variant that leaves the end at the time of day it was given
createDateRangeEndAsGiven(tz, startDate, endDate) ==
  IF SetHours(tz, startDate, 0, 0, 0, 0).ok /\ endDate.ok
  THEN [ok |-> TRUE, startDate |-> ToISOString(SetHours(tz, startDate, 0, 0, 0, 0)),
        endDate |-> ToISOString(endDate)]
  ELSE [ok |-> FALSE, startDate |-> IsoZero, endDate |-> IsoZero]
\* lines 1030-1041
createDateRange(tz, startDate, endDate) ==
  LET start == SetHours(tz, startDate, 0, 0, 0, 0)
      end == SetHours(tz, endDate, 23, 59, 59, 999)
  IN  IF start.ok /\ end.ok
      THEN [ok |-> TRUE, startDate |-> ToISOString(start), endDate |-> ToISOString(end)]
      ELSE NoRange

\* the week of Sunday..Saturday that starts `back` days before the Sunday on or before t
WeekRange(tz, t, back) ==
  LET sunday == SetHours(tz, SetDate(tz, t, GetDate(tz, t) - GetDay(tz, t) - back), 0, 0, 0, 0)
      saturday == SetHours(tz, SetDate(tz, sunday, GetDate(tz, sunday) + 6), 23, 59, 59, 999)
  IN  createDateRange(tz, sunday, saturday)
\* from the start of the day pastDate to the end of today
SinceRange(tz, today, pastDate) ==
  createDateRange(tz, SetHours(tz, pastDate, 0, 0, 0, 0), SetHours(tz, today, 23, 59, 59, 999))
\* a variant whose range runs on to the end of the following day
DayRangeToNext(tz, t) ==
  createDateRange(tz, SetHours(tz, t, 0, 0, 0, 0), SetDate(tz, t, GetDate(tz, t) + 1))
\* the one day t
DayRange(tz, t) ==
  createDateRange(tz, SetHours(tz, t, 0, 0, 0, 0), SetHours(tz, t, 23, 59, 59, 999))

\* line 1422: dayNames[match[1].toLowerCase()]
targetDay(word) == (CHOOSE i \in 1..Len(DayNames) : DayNames[i] = word) - 1
\* a variant that goes back a week only when the difference is negative
daysToSubtractOrNone(currentDay, target) ==
  IF currentDay - target < 0 THEN currentDay - target + 7 ELSE currentDay - target
\* lines 1427-1432
daysToSubtract(currentDay, target) ==
  IF currentDay - target <= 0 THEN currentDay - target + 7 ELSE currentDay - target

\* entry j of dateRangePatterns applied to its match (n is parseInt of group 1,
\* word is group 1), with every new Date() of the handler reading `now`
DateRangeHandler(tz, now, j, n, word) ==
  LET Y == GetFullYear(tz, now)
      M == GetMonth(tz, now)
      D == GetDate(tz, now)
  IN  CASE j = 1 -> WeekRange(tz, now, 7)
        [] j = 2 -> WeekRange(tz, now, 0)
        [] j = 3 -> createDateRange(tz, NewDate(tz, Y, M - 1, 1, 0, 0, 0),
                                    NewDate(tz, Y, M, 0, 0, 0, 0))
        [] j = 4 -> createDateRange(tz, NewDate(tz, Y, M, 1, 0, 0, 0),
                                    NewDate(tz, Y, M + 1, 0, 0, 0, 0))
        [] j = 5 -> createDateRange(tz, NewDate(tz, Y - 1, 0, 1, 0, 0, 0),
                                    NewDate(tz, Y - 1, 11, 31, 23, 59, 59))
        [] j = 6 -> createDateRange(tz, NewDate(tz, Y, 0, 1, 0, 0, 0),
                                    NewDate(tz, Y, 11, 31, 23, 59, 59))
        [] j = 7 ->
             LET currentQuarter == M \div 3
                 lastQuarterStartMonth == IF currentQuarter = 0 THEN 9 ELSE (currentQuarter - 1) * 3
                 lastQuarterYear == IF currentQuarter = 0 THEN Y - 1 ELSE Y
             IN  createDateRange(tz, NewDate(tz, lastQuarterYear, lastQuarterStartMonth, 1, 0, 0, 0),
                                 NewDate(tz, lastQuarterYear, lastQuarterStartMonth + 3, 0, 23, 59, 59))
        [] j = 8 -> SinceRange(tz, now, SetDate(tz, now, D - n))
        [] j = 9 -> SinceRange(tz, now, SetDate(tz, now, D - 7))
        [] j = 10 -> SinceRange(tz, now, SetDate(tz, now, D - 21))
        [] j = 11 -> SinceRange(tz, now, SetMonth(tz, now, M - 3))
        [] j = 12 -> SinceRange(tz, now, SetDate(tz, now, D - n * 7))
        [] j = 13 -> SinceRange(tz, now, SetMonth(tz, now, M - n))
        [] j = 14 -> SinceRange(tz, now, SetFullYear(tz, now, Y - n))
        [] j = 15 -> DayRange(tz, SetDate(tz, now, D - n))
        [] j = 16 -> WeekRange(tz, SetDate(tz, now, D - n * 7), 0)
        [] j = 17 ->
             LET targetYear == Y + ((M - n) \div 12)
                 targetMonth == (M - n) % 12
             IN  createDateRange(
                   tz, SetHours(tz, NewDate(tz, targetYear, targetMonth, 1, 0, 0, 0), 0, 0, 0, 0),
                   SetHours(tz, NewDate(tz, targetYear, targetMonth + 1, 0, 0, 0, 0), 23, 59, 59, 999))
        [] j = 18 -> DayRange(tz, now)
        [] j = 19 -> DayRange(tz, SetDate(tz, now, D - 1))
        [] j = 20 ->
             DayRange(tz, SetDate(tz, now, D - daysToSubtract(GetDay(tz, now), targetDay(word))))

(***************************************************************************)
(* The inputs: each call passes one voiceText.  str = FALSE stands for a   *)
(* value that is not a string (null, undefined, a number, an object).      *)
(***************************************************************************)
Inputs ==
  << [str |-> FALSE, v |-> ""],
     [str |-> TRUE, v |-> ""],
     [str |-> TRUE, v |-> "find emails received between January 1 and January 31"],
     [str |-> TRUE, v |-> "find emails from Sarah about quarterly report received in March"],
     [str |-> TRUE, v |-> "3 days ago"],
     [str |-> TRUE, v |-> "mail sent 200000000 days ago"],
     [str |-> TRUE, v |-> "show emails from john to mary"],
     [str |-> TRUE, v |-> "invoices from yesterday and 2024-01-05 or march"],
     [str |-> TRUE, v |-> "2024-03-05 or 2024-01-02"],
     [str |-> TRUE, v |-> "top 500 results only 5"],
     [str |-> TRUE, v |-> "show top 0 emails"],
     [str |-> TRUE, v |-> "limit to 150"],
     [str |-> TRUE, v |-> "last 200000000 days on monday"],
     [str |-> TRUE, v |-> "200000000 days ago before 2024-01-05"],
     [str |-> TRUE, v |-> "before march"],
     [str |-> TRUE, v |-> "  Today  "],
     [str |-> TRUE, v |-> "first 7 messages"],
     [str |-> TRUE, v |-> "1/5/2024"],
     [str |-> TRUE, v |-> "14288565 weeks ago 3286144 months ago"],
     [str |-> TRUE, v |-> "0 days ago"],
     [str |-> TRUE, v |-> "show me emails in spam folder"],
     [str |-> TRUE, v |-> "find emails with subject containing project and body containing budget"],
     [str |-> TRUE, v |-> "show me the top 5 emails from support team"],
     [str |-> TRUE, v |-> "important emails in spam folder"],
     [str |-> TRUE, v |-> "starred drafts in the bin"],
     [str |-> TRUE, v |-> "archive of flagged priority mail"],
     [str |-> TRUE, v |-> "everywhere flagged"],
     [str |-> TRUE, v |-> "about subject:\"foo\""],
     [str |-> TRUE, v |-> "tom"],
     [str |-> TRUE,
      v |-> "last week this week last month this month last year this year last quarter"],
     [str |-> TRUE,
      v |-> "last 3 days recently last few weeks recent months past 2 weeks previous 5 months last 2 years"],
     [str |-> TRUE, v |-> "2 days ago 3 weeks ago 13 months ago today yesterday friday"],
     [str |-> TRUE, v |-> "march or 2024-01-15 or june"],
     [str |-> TRUE, v |-> "february or 2024-06-10 or april"],
     [str |-> TRUE, v |-> "after 2024-02-10"],
     [str |-> TRUE, v |-> "from bob until 2024-02-10"],
     [str |-> TRUE, v |-> "2024-01-05"],
     [str |-> TRUE, v |-> "14288565 weeks ago"],
     [str |-> TRUE, v |-> "sunday"],
     [str |-> TRUE, v |-> "tuesday"],
     [str |-> TRUE, v |-> "wednesday"],
     [str |-> TRUE, v |-> "recent weeks"],
     [str |-> TRUE, v |-> "last few months"],
     [str |-> TRUE, v |-> "last few weeks"],
     [str |-> TRUE, v |-> "recently"],
     [str |-> TRUE, v |-> "mail from al (urgent)"],
     [str |-> TRUE, v |-> "from (bob)"],
     [str |-> TRUE, v |-> "last 3 days"] >>
InputIds == 1..Len(Inputs)

\* lines 908 and 914: the guard, and the normalized text of a string input
IsValidInput(k) == Inputs[k].str /\ Inputs[k].v # ""
Normalize(v) == Trim(ToLowerCase(v))
Text == [k \in InputIds |-> Normalize(Inputs[k].v)]

(***************************************************************************)
(* Folder, lines 917-950                                                   *)
(***************************************************************************)
AnyIncluded(text, words) == \E i \in 1..Len(words) : Includes(text, words[i])
\* a variant made of separate tests, in which the last group with a term wins
ClassifyFolderLastWins(text) ==
  IF AnyIncluded(text, <<"starred", "flagged">>) THEN "[Gmail]/Starred"
  ELSE IF AnyIncluded(text, <<"all mail", "archive", "all emails", "everywhere">>)
  THEN "[Gmail]/All Mail"
  ELSE IF AnyIncluded(text, <<"important", "priority">>) THEN "[Gmail]/Important"
  ELSE IF AnyIncluded(text, <<"trash", "deleted", "bin">>) THEN "[Gmail]/Trash"
  ELSE IF AnyIncluded(text, <<"draft", "drafts folder">>) THEN "[Gmail]/Drafts"
  ELSE IF AnyIncluded(text, <<"sent", "outbox", "sent mail", "sent items">>)
  THEN "[Gmail]/Sent Mail"
  ELSE IF AnyIncluded(text, <<"spam", "junk mail", "junk folder">>) THEN "[Gmail]/Spam"
  ELSE "INBOX"
ClassifyFolder(text) ==
  IF AnyIncluded(text, <<"spam", "junk mail", "junk folder">>) THEN "[Gmail]/Spam"
  ELSE IF AnyIncluded(text, <<"sent", "outbox", "sent mail", "sent items">>)
  THEN "[Gmail]/Sent Mail"
  ELSE IF AnyIncluded(text, <<"draft", "drafts folder">>) THEN "[Gmail]/Drafts"
  ELSE IF AnyIncluded(text, <<"trash", "deleted", "bin">>) THEN "[Gmail]/Trash"
  ELSE IF AnyIncluded(text, <<"important", "priority">>) THEN "[Gmail]/Important"
  ELSE IF AnyIncluded(text, <<"all mail", "archive", "all emails", "everywhere">>)
  THEN "[Gmail]/All Mail"
  ELSE IF AnyIncluded(text, <<"starred", "flagged">>) THEN "[Gmail]/Starred"
  ELSE "INBOX"
FolderOf == [k \in InputIds |-> ClassifyFolder(Text[k])]

(***************************************************************************)
(* Date references, lines 952-1027                                         *)
(***************************************************************************)
\* the match strings of each numeric date pattern, in pattern order
WholeOfAll(text, ms) == [i \in 1..Len(ms) |-> Whole(text, ms[i])]
SpecificMatches(text) ==
  Flat([p \in 1..Len(specificDatePatterns) |->
         WholeOfAll(text, MatchAll(text, specificDatePatterns[p]))])
SpecificOf == [k \in InputIds |-> SpecificMatches(Text[k])]

\* lines 964-982
\* extractedDates.push(...) behind the guard !isNaN(dateObj.getTime())
DateRef(dateObj, text, type, isMonthOnly) ==
  IF dateObj.ok
  THEN <<[date |-> dateObj, text |-> text, type |-> type, isMonthOnly |-> isMonthOnly]>>
  ELSE <<>>
SpecificRefs(tz, strs) ==
  Flat([i \in 1..Len(strs) |-> DateRef(DateParse(tz, strs[i]), strs[i], "specific", FALSE)])

\* the matches of monthPattern: month index 0..11, the day and the year when given
MonthHit(text, m) ==
  [month |-> (CHOOSE n \in 1..12 : MonthNames[n] = Group(text, m, 1)) - 1,
   hasDay |-> HasGroup(m, 2), day |-> ParseInt(Group(text, m, 2)),
   hasYear |-> HasGroup(m, 3), year |-> ParseInt(Group(text, m, 3)),
   text |-> Whole(text, m)]
MonthHits(text, ms) == [i \in 1..Len(ms) |-> MonthHit(text, ms[i])]
MonthMatches(text) == MonthHits(text, MatchAll(text, monthPattern))
MonthOf == [k \in InputIds |-> MonthMatches(Text[k])]

\* lines 988-1027; new Date().getFullYear() reads the clock
MonthRefs(tz, now, ms) ==
  Flat([i \in 1..Len(ms) |->
         DateRef(NewDate(tz, IF ms[i].hasYear THEN ms[i].year ELSE GetFullYear(tz, now),
                         ms[i].month, IF ms[i].hasDay THEN ms[i].day ELSE 1, 0, 0, 0),
                 ms[i].text, IF ms[i].hasDay THEN "specific" ELSE "month", ~ms[i].hasDay)])

(***************************************************************************)
(* Stage 1, lines 1449-1469: the first entry that matches and whose        *)
(* handler returns a range                                                 *)
(***************************************************************************)
\* parseInt(match[1]) for a group 1 that is a number, else 0
GroupNumber(text, m) ==
  IF m.ok /\ At(Group(text, m, 1), 1) \in Digits THEN ParseInt(Group(text, m, 1)) ELSE 0
RangeHit(text, m) == [ok |-> m.ok, word |-> Group(text, m, 1), n |-> GroupNumber(text, m)]
RangeMatches(text) ==
  [j \in 1..Len(dateRangePatterns) |-> RangeHit(text, Match(text, dateRangePatterns[j]))]
RangeOf == [k \in InputIds |-> RangeMatches(Text[k])]

\* the first entry whose handler returned a range (entry 0 and ok = FALSE when none did)
FirstRange(res) ==
  LET good == {j \in 1..Len(res) : res[j].ok}
  IN  IF good = {} THEN NoRange @@ [entry |-> 0]
      ELSE LET j == CHOOSE a \in good : \A b \in good : a <= b
           IN  res[j] @@ [entry |-> j]
DirectRange(tz, now, hits) ==
  FirstRange([j \in 1..Len(hits) |->
               IF hits[j].ok THEN DateRangeHandler(tz, now, j, hits[j].n, hits[j].word)
               ELSE NoRange])

(***************************************************************************)
(* Stage 2, lines 1471-1657.  text is declared const at line 914, so the   *)
(* assignment text = firstPart at line 1488 throws a TypeError whenever    *)
(* betweenPattern matches; the catch at line 2108 rethrows it.             *)
(***************************************************************************)
BetweenOf == [k \in InputIds |-> Match(Text[k], betweenPattern).ok]

(***************************************************************************)
(* Stage 3, lines 1659-1888                                                *)
(***************************************************************************)
RelativeHit(text, m) == [ok |-> m.ok, text |-> Whole(text, m), n |-> GroupNumber(text, m)]
RelativeMatches(text) ==
  [j \in 1..Len(relativeTimePatterns) |->
    RelativeHit(text, Match(text, relativeTimePatterns[j]))]
RelativeOf == [k \in InputIds |-> RelativeMatches(Text[k])]

\* the handler of entry j of relativeTimePatterns
RelativeHandler(tz, now, j, n) ==
  LET Y == GetFullYear(tz, now)
      M == GetMonth(tz, now)
      D == GetDate(tz, now)
      day == GetDay(tz, now)
  IN  CASE j = 1 -> now
        [] j = 2 -> SetDate(tz, now, D - 1)
        [] j = 3 -> SetDate(tz, now, D - 7)
        [] j = 4 -> SetMonth(tz, now, M - 1)
        [] j = 5 -> SetFullYear(tz, now, Y - 1)
        [] j = 6 -> SetDate(tz, now, D - day + (IF day = 0 THEN -6 ELSE 1))
        [] j = 7 -> NewDate(tz, Y, M, 1, 0, 0, 0)
        [] j = 8 -> NewDate(tz, Y, 0, 1, 0, 0, 0)
        [] j = 9 -> SetDate(tz, now, D - n)
        [] j = 10 -> SetDate(tz, now, D - n * 7)
        [] j = 11 -> SetMonth(tz, now, M - n)

\* lines 1748-1764
RelativeRefs(tz, now, hits) ==
  Flat([j \in 1..Len(hits) |->
         IF hits[j].ok
         THEN DateRef(RelativeHandler(tz, now, j, hits[j].n), hits[j].text, "relative", FALSE)
         ELSE <<>>])

RECURSIVE InsertRef(_, _)
\* r put behind every reference that is not later than it
InsertRef(sorted, r) ==
  IF Len(sorted) = 0 THEN <<r>>
  ELSE IF NotAfter(sorted[Len(sorted)].date, r.date) THEN Append(sorted, r)
  ELSE Append(InsertRef(SubSeq(sorted, 1, Len(sorted) - 1), r), sorted[Len(sorted)])
\* a variant that leaves the references in the order they were collected
Unsorted(refs) == refs
RECURSIVE SortRefs(_)
\* line 1780: the stable sort by date.getTime()
SortRefs(refs) ==
  IF Len(refs) = 0 THEN <<>>
  ELSE InsertRef(SortRefs(SubSeq(refs, 1, Len(refs) - 1)), refs[Len(refs)])

BeforeWords == <<"before", "until", "up to", "earlier than", "prior to">>
AfterWords == <<"after", "since", "from", "later than", "newer than">>

\* a date bound that toISOString is asked for: thrown is TRUE for an Invalid Date
NoBounds == [thrown |-> FALSE, startDate |-> NullIso, endDate |-> NullIso]
Bounds(start, end) ==
  [thrown |-> (start.set /\ ~start.v.ok) \/ (end.set /\ ~end.v.ok),
   startDate |-> IF start.set /\ start.v.ok THEN SomeIso(start.v) ELSE NullIso,
   endDate |-> IF end.set /\ end.v.ok THEN SomeIso(end.v) ELSE NullIso]
NoDate == [set |-> FALSE, v |-> InvalidDate]
ADate(t) == [set |-> TRUE, v |-> t]

\* a variant that tests the after-words first
DirectionAfterFirst(text) ==
  IF AnyIncluded(text, AfterWords) THEN "start"
  ELSE IF AnyIncluded(text, BeforeWords) THEN "end"
  ELSE "none"
\* lines 1824-1846: the if / else if over text.includes
DirectionOf(text) ==
  IF AnyIncluded(text, BeforeWords) THEN "end"
  ELSE IF AnyIncluded(text, AfterWords) THEN "start"
  ELSE "none"
\* a variant that expands every single reference to its day
SingleUndirectedAsDay(tz, dateRef) ==
  Bounds(ADate(SetHours(tz, dateRef.date, 0, 0, 0, 0)),
         ADate(SetHours(tz, dateRef.date, 23, 59, 59, 999)))
\* lines 1856-1885: one reference, no directional word
SingleUndirected(tz, dateRef) ==
  IF dateRef.type = "relative" THEN Bounds(ADate(dateRef.date), NoDate)
  ELSE IF dateRef.isMonthOnly
  THEN Bounds(ADate(NewDate(tz, GetFullYear(tz, dateRef.date), GetMonth(tz, dateRef.date),
                            1, 0, 0, 0)),
              ADate(NewDate(tz, GetFullYear(tz, dateRef.date), GetMonth(tz, dateRef.date) + 1,
                            0, 23, 59, 59)))
  ELSE LET exactDate == SetHours(tz, dateRef.date, 0, 0, 0, 0)
           nextDay == SetDate(tz, exactDate, GetDate(tz, exactDate) + 1)
       IN  Bounds(ADate(exactDate), ADate(SetSeconds(tz, nextDay, GetSeconds(tz, nextDay) - 1)))

\* lines 1776-1887: the bounds the collected references give
ResolveReferences(tz, text, refs) ==
  IF Len(refs) = 0 THEN NoBounds
  ELSE IF Len(refs) >= 2
  THEN LET sorted == SortRefs(refs)
           first == sorted[1]
           last == sorted[Len(sorted)]
           startDate == IF first.isMonthOnly
                        THEN NewDate(tz, GetFullYear(tz, first.date), GetMonth(tz, first.date),
                                     1, 0, 0, 0)
                        ELSE first.date
           endDate == IF last.isMonthOnly
                      THEN NewDate(tz, GetFullYear(tz, last.date), GetMonth(tz, last.date) + 1,
                                   0, 23, 59, 59)
                      ELSE NewDate(tz, GetFullYear(tz, last.date), GetMonth(tz, last.date),
                                   GetDate(tz, last.date), 23, 59, 59)
       IN  Bounds(ADate(startDate), ADate(endDate))
  ELSE LET dateRef == refs[1]
           date == dateRef.date
           direction == DirectionOf(text)
       IN  IF direction = "end"
           THEN LET endDate == IF dateRef.isMonthOnly
                               THEN SetMonthDate(tz, date, GetMonth(tz, date) + 1, 0)
                               ELSE date
                IN  Bounds(NoDate, ADate(SetHours(tz, endDate, 23, 59, 59, 999)))
           ELSE IF direction = "start"
           THEN LET startDate == IF dateRef.isMonthOnly THEN SetDate(tz, date, 1) ELSE date
                IN  Bounds(ADate(SetHours(tz, startDate, 0, 0, 0, 0)), NoDate)
           ELSE SingleUndirected(tz, dateRef)

(***************************************************************************)
(* Keywords and sender, lines 1948-2054                                    *)
(***************************************************************************)
\* the value the first pattern that yields one gives (the loops break there)
FirstSet(found) ==
  LET hit == {i \in 1..Len(found) : found[i].set}
  IN  IF hit = {} THEN NullStr ELSE found[CHOOSE a \in hit : \A b \in hit : a <= b]
\* match && match[1] && match[1].trim().length > 0: the trimmed group 1
Capture(text, m) ==
  IF m.ok /\ Len(Trim(Group(text, m, 1))) > 0 THEN SomeStr(Trim(Group(text, m, 1)))
  ELSE NullStr
\* the loops at 1954-1963, 1966-1975 and 2013-2022
FirstCapture(text, pats) ==
  FirstSet([i \in 1..Len(pats) |-> Capture(text, Match(text, pats[i]))])

stopWords == {"and", "the", "with", "for", "in", "on", "at", "by", "to", "a", "an"}
\* lines 1980-2008: the sender one pattern's match gives
SenderOf(text, m) ==
  LET senderMatch == IF Group(text, m, 2) # "" THEN Group(text, m, 2)
                     ELSE Group(text, m, 1)
  IN  IF m.ok /\ Len(senderMatch) > 1 /\ Len(senderMatch) > 2
         /\ ToLowerCase(Trim(senderMatch)) \notin stopWords
      THEN SomeStr(Trim(senderMatch))
      ELSE NullStr
\* lines 1978-2010
ExtractSender(text) ==
  FirstSet([i \in 1..Len(senderPatterns) |-> SenderOf(text, Match(text, senderPatterns[i]))])

\* lines 2013-2031: the general keyword, then the quoted text when nothing was found
QuotedText(text, quotedText) ==
  IF quotedText.ok /\ Len(Group(text, quotedText, 1)) > 1
  THEN SomeStr(Group(text, quotedText, 1))
  ELSE NullStr
QuotedOr(generalKeyword, subjectKeyword, bodyKeyword, quoted) ==
  IF ~generalKeyword.set /\ ~subjectKeyword.set /\ ~bodyKeyword.set /\ quoted.set
  THEN quoted
  ELSE generalKeyword
GeneralKeyword(text, subjectKeyword, bodyKeyword) ==
  QuotedOr(FirstCapture(text, keywordPatterns), subjectKeyword, bodyKeyword,
           QuotedText(text, Match(text, quotedTextPattern)))

\* a variant in which a general keyword, when there is one, is the keyword
ComposeKeywordGeneralFirst(subjectKeyword, bodyKeyword, generalKeyword) ==
  IF generalKeyword.set THEN [keyword |-> generalKeyword, complexQuery |-> FALSE]
  ELSE IF subjectKeyword.set
  THEN [keyword |-> SomeStr("subject:\"" \o subjectKeyword.v \o "\""), complexQuery |-> TRUE]
  ELSE IF bodyKeyword.set
  THEN [keyword |-> SomeStr("body:\"" \o bodyKeyword.v \o "\""), complexQuery |-> TRUE]
  ELSE [keyword |-> NullStr, complexQuery |-> FALSE]
\* lines 2034-2054: keyword and complexQuery
ComposeKeyword(subjectKeyword, bodyKeyword, generalKeyword) ==
  LET s == "subject:\"" \o subjectKeyword.v \o "\""
      b == "body:\"" \o bodyKeyword.v \o "\""
  IN  IF subjectKeyword.set /\ bodyKeyword.set
      THEN [keyword |-> SomeStr(s \o " AND " \o b), complexQuery |-> TRUE]
      ELSE IF subjectKeyword.set THEN [keyword |-> SomeStr(s), complexQuery |-> TRUE]
      ELSE IF bodyKeyword.set THEN [keyword |-> SomeStr(b), complexQuery |-> TRUE]
      ELSE [keyword |-> generalKeyword, complexQuery |-> FALSE]

EntitiesWith(text, subjectKeyword, bodyKeyword) ==
  [sender |-> ExtractSender(text)]
    @@ ComposeKeyword(subjectKeyword, bodyKeyword,
                      GeneralKeyword(text, subjectKeyword, bodyKeyword))
ExtractEntities(text) ==
  EntitiesWith(text, FirstCapture(text, subjectKeywordPatterns),
               FirstCapture(text, bodyKeywordPatterns))
EntitiesOf == [k \in InputIds |-> ExtractEntities(Text[k])]

(***************************************************************************)
(* Cleaned-text fallback, lines 2056-2080                                  *)
(***************************************************************************)
RECURSIVE ReplaceFrom(_, _, _, _), ReplaceWith(_, _, _, _, _)
\* String.prototype.replace with a global pattern that matches no empty string;
\* m is the match found from offset p
ReplaceWith(text, re, by, p, m) ==
  IF ~m.ok THEN SubSeq(text, p + 1, Len(text))
  ELSE SubSeq(text, p + 1, m.s) \o by \o ReplaceFrom(text, re, by, m.e)
ReplaceFrom(text, re, by, p) == ReplaceWith(text, re, by, p, ExecFrom(text, re, p))
ReplaceAll(text, re, by) == ReplaceFrom(text, re, by, 0)

CleanText(text) ==
  Trim(ReplaceAll(ReplaceAll(ReplaceAll(text, filterWordPattern, ""), punctuationPattern, " "),
                  spacesPattern, " "))
CleanedOf == [k \in InputIds |-> CleanText(Text[k])]

(***************************************************************************)
(* Limit, lines 2082-2104                                                  *)
(***************************************************************************)
AllDigits(w) == Len(w) > 0 /\ \A i \in 1..Len(w) : At(w, i) \in Digits
\* match.find(part => /^\d+$/.test(part)) over the match and its groups
NumPart(text, m) ==
  IF AllDigits(Whole(text, m)) THEN Whole(text, m)
  ELSE IF AllDigits(Group(text, m, 1)) THEN Group(text, m, 1)
  ELSE IF AllDigits(Group(text, m, 2)) THEN Group(text, m, 2)
  ELSE ""
\* a variant that only checks the upper end of the range
LimitAtMost100(limitValue) == limitValue <= 100
\* limitValue > 0 && limitValue <= 100
LimitInRange(limitValue) == limitValue > 0 /\ limitValue <= 100
DefaultLimit == 20
RECURSIVE LimitFrom(_, _), LimitWith(_, _, _)
\* lines 2091-2103 for the match m of pattern i: take its number and stop, or go on
LimitWith(text, i, m) ==
  IF m.ok /\ NumPart(text, m) # "" /\ LimitInRange(ParseInt(NumPart(text, m)))
  THEN ParseInt(NumPart(text, m))
  ELSE LimitFrom(text, i + 1)
LimitFrom(text, i) ==
  IF i > Len(limitPatterns) THEN DefaultLimit
  ELSE LimitWith(text, i, Match(text, limitPatterns[i]))
ExtractLimit(text) == LimitFrom(text, 1)
LimitOf == [k \in InputIds |-> ExtractLimit(Text[k])]

(***************************************************************************)
(* The state machine.  Each caller runs one invocation at a time; an       *)
(* invocation's locals are searchParams, extractedDates and dateRangeFound.*)
(* clock is the system clock that every new Date() reads; it only moves    *)
(* forward.  reads records the clock value each reading stage saw.         *)
(***************************************************************************)
VARIABLES clock, ticks, tz, inv

vars == <<clock, ticks, tz, inv>>

MaxTicks == 2
TimeZones == {-300, 0, 330}
\* 2024-12-31T23:59:59.999Z, noon of Sunday 2024-03-03, and 2024-08-20T23:59:59.999Z
YearEnd == [ok |-> TRUE, d |-> DaysFromCivil(2024, 12, 31), ms |-> MsPerDay - 1]
SundayNoon == [ok |-> TRUE, d |-> DaysFromCivil(2024, 3, 3), ms |-> MsPerDay \div 2]
TuesdayEnd == [ok |-> TRUE, d |-> DaysFromCivil(2024, 8, 20), ms |-> MsPerDay - 1]
StartClocks == {YearEnd, SundayNoon, TuesdayEnd}
ClockSteps == {1, MsPerDay}
ConcurrentClockSteps == {1}
\* the inputs two concurrent callers pass
ConcurrentInputs == {3, 4, 9, 16}

\* lines 898-905
DefaultParams ==
  [keyword |-> NullStr, startDate |-> NullIso, endDate |-> NullIso, sender |-> NullStr,
   folder |-> "INBOX", limit |-> DefaultLimit, complexQuery |-> FALSE]
NoReads == [scan |-> InvalidDate, range |-> InvalidDate, relative |-> InvalidDate]
Idle ==
  [pc |-> "idle", arg |-> 0, searchParams |-> DefaultParams, extractedDates |-> <<>>,
   dateRangeFound |-> FALSE, reads |-> NoReads]

\* a variant in which every invocation works on the first caller's reference list
SharedLocals(c) == [inv[c] EXCEPT !.extractedDates = inv[1].extractedDates]
\* the locals of caller c's invocation (declared inside the function, lines 898-1450)
LocalsOf(c) == inv[c]

(* ---- the steps of parseVoiceSearchQuery, each a function of the locals ---- *)
\* a variant without the guard of line 908: every input goes on to the extractors
DoValidateUnguarded(L) == [L EXCEPT !.pc = "folder"]
\* lines 907-915
DoValidate(L) ==
  IF IsValidInput(L.arg) THEN [L EXCEPT !.pc = "folder"] ELSE [L EXCEPT !.pc = "done"]
\* lines 917-950
DoFolder(L) ==
  [L EXCEPT !.pc = "scan", !.searchParams.folder = FolderOf[L.arg]]
\* lines 952-1027
DoScan(L, zone, now) ==
  [L EXCEPT !.pc = "range", !.reads.scan = now,
            !.extractedDates = SpecificRefs(zone, SpecificOf[L.arg])
                               \o MonthRefs(zone, now, MonthOf[L.arg])]
\* lines 1449-1469
\* lines 1456-1466: the range r is taken when a handler returned one
WithRange(L, r) ==
  IF r.ok
  THEN [L EXCEPT !.dateRangeFound = TRUE,
                 !.searchParams.startDate = [set |-> TRUE, v |-> r.startDate],
                 !.searchParams.endDate = [set |-> TRUE, v |-> r.endDate]]
  ELSE L
DoRange(L, zone, now) ==
  WithRange([L EXCEPT !.pc = "between", !.reads.range = now],
            DirectRange(zone, now, RangeOf[L.arg]))
\* lines 1471-1657
DoBetween(L) ==
  IF ~L.dateRangeFound /\ BetweenOf[L.arg] THEN [L EXCEPT !.pc = "error"]
  ELSE [L EXCEPT !.pc = "relative"]
\* lines 1659-1888
\* lines 1776-1887: the bounds b that the references refs give
WithBounds(L, refs, b) ==
  IF b.thrown THEN [L EXCEPT !.pc = "error"]
  ELSE [L EXCEPT !.pc = "entities", !.extractedDates = refs,
                 !.searchParams.startDate = b.startDate,
                 !.searchParams.endDate = b.endDate]
WithRefs(L, zone, refs) == WithBounds(L, refs, ResolveReferences(zone, Text[L.arg], refs))
\* a variant without the guard of line 1659: stage 3 runs after a stage-1 range too
DoRelativeAlways(L, zone, now) ==
  WithRefs([L EXCEPT !.reads.relative = now], zone,
           L.extractedDates \o RelativeRefs(zone, now, RelativeOf[L.arg]))
DoRelative(L, zone, now) ==
  IF L.dateRangeFound THEN [L EXCEPT !.pc = "entities"]
  ELSE WithRefs([L EXCEPT !.reads.relative = now], zone,
                L.extractedDates \o RelativeRefs(zone, now, RelativeOf[L.arg]))
\* lines 1890-2054
DoEntities(L) ==
  [L EXCEPT !.pc = "fallback", !.searchParams.sender = EntitiesOf[L.arg].sender,
            !.searchParams.keyword = EntitiesOf[L.arg].keyword,
            !.searchParams.complexQuery = EntitiesOf[L.arg].complexQuery]
\* lines 2056-2080
DoFallback(L) ==
  LET sp == L.searchParams
  IN  IF ~sp.keyword.set /\ ~sp.sender.set /\ ~sp.startDate.set /\ ~sp.endDate.set
         /\ sp.folder = "INBOX" /\ Len(CleanedOf[L.arg]) > 2
      THEN [L EXCEPT !.pc = "limit", !.searchParams.keyword = SomeStr(CleanedOf[L.arg])]
      ELSE [L EXCEPT !.pc = "limit"]
\* a variant that looks for a limit only when no sender was found
DoLimitUnlessSender(L) ==
  IF L.searchParams.sender.set THEN [L EXCEPT !.pc = "done"]
  ELSE [L EXCEPT !.pc = "done", !.searchParams.limit = LimitOf[L.arg]]
\* lines 2082-2107
DoLimit(L) ==
  [L EXCEPT !.pc = "done", !.searchParams.limit = LimitOf[L.arg]]

(* ---- actions ---- *)
Call(c, k) ==
  /\ inv[c].pc = "idle"
  /\ inv' = [inv EXCEPT ![c] = [Idle EXCEPT !.pc = "validate", !.arg = k]]
  /\ UNCHANGED <<clock, ticks, tz>>
Validate(c) ==
  /\ inv[c].pc = "validate"
  /\ inv' = [inv EXCEPT ![c] = DoValidate(LocalsOf(c))]
  /\ UNCHANGED <<clock, ticks, tz>>
Folder(c) ==
  /\ inv[c].pc = "folder"
  /\ inv' = [inv EXCEPT ![c] = DoFolder(LocalsOf(c))]
  /\ UNCHANGED <<clock, ticks, tz>>
Scan(c) ==
  /\ inv[c].pc = "scan"
  /\ inv' = [inv EXCEPT ![c] = DoScan(LocalsOf(c), tz, clock)]
  /\ UNCHANGED <<clock, ticks, tz>>
Range(c) ==
  /\ inv[c].pc = "range"
  /\ inv' = [inv EXCEPT ![c] = DoRange(LocalsOf(c), tz, clock)]
  /\ UNCHANGED <<clock, ticks, tz>>
Between(c) ==
  /\ inv[c].pc = "between"
  /\ inv' = [inv EXCEPT ![c] = DoBetween(LocalsOf(c))]
  /\ UNCHANGED <<clock, ticks, tz>>
Relative(c) ==
  /\ inv[c].pc = "relative"
  /\ inv' = [inv EXCEPT ![c] = DoRelative(LocalsOf(c), tz, clock)]
  /\ UNCHANGED <<clock, ticks, tz>>
Entities(c) ==
  /\ inv[c].pc = "entities"
  /\ inv' = [inv EXCEPT ![c] = DoEntities(LocalsOf(c))]
  /\ UNCHANGED <<clock, ticks, tz>>
Fallback(c) ==
  /\ inv[c].pc = "fallback"
  /\ inv' = [inv EXCEPT ![c] = DoFallback(LocalsOf(c))]
  /\ UNCHANGED <<clock, ticks, tz>>
Limit(c) ==
  /\ inv[c].pc = "limit"
  /\ inv' = [inv EXCEPT ![c] = DoLimit(LocalsOf(c))]
  /\ UNCHANGED <<clock, ticks, tz>>
\* the caller takes the returned query, or the rejection, and may call again
Return(c) ==
  /\ inv[c].pc \in {"done", "error"}
  /\ inv' = [inv EXCEPT ![c] = Idle]
  /\ UNCHANGED <<clock, ticks, tz>>
Tick(steps) ==
  /\ ticks < MaxTicks
  /\ \E step \in steps : clock' = MkInstant(clock.d, clock.ms + step)
  /\ ticks' = ticks + 1
  /\ UNCHANGED <<tz, inv>>

Step(c) ==
  \/ Validate(c) \/ Folder(c) \/ Scan(c) \/ Range(c) \/ Between(c) \/ Relative(c)
  \/ Entities(c) \/ Fallback(c) \/ Limit(c) \/ Return(c)

\* one caller, every input
Init ==
  /\ clock \in StartClocks
  /\ ticks = 0
  /\ tz \in TimeZones
  /\ inv = [c \in {1} |-> Idle]
Next ==
  \/ \E c \in DOMAIN inv, k \in InputIds : Call(c, k)
  \/ \E c \in DOMAIN inv : Step(c)
  \/ Tick(ClockSteps)
Spec == Init /\ [][Next]_vars

\* two callers whose invocations interleave step by step
InitConc ==
  /\ clock = YearEnd
  /\ ticks = 0
  /\ tz = 0
  /\ inv = [c \in {1, 2} |-> Idle]
NextConc ==
  \/ \E c \in DOMAIN inv, k \in ConcurrentInputs : Call(c, k)
  \/ \E c \in DOMAIN inv : Step(c)
  \/ Tick(ConcurrentClockSteps)
SpecConc == InitConc /\ [][NextConc]_vars

(***************************************************************************)
(* Properties of parseVoiceSearchQuery.  An invocation has returned when   *)
(* its pc is "done": searchParams is then the query the caller receives.   *)
(* It has raised when its pc is "error".                                   *)
(***************************************************************************)
Callers == DOMAIN inv
Returned(c) == inv[c].pc = "done"
Raised(c) == inv[c].pc = "error"
Ended(c) == Returned(c) \/ Raised(c)
Query(c) == inv[c].searchParams
TextOf(c) == Text[inv[c].arg]
IsoNotAfter(a, b) == NotAfter(IsoInstant(a), IsoInstant(b))
\* the ISO string of local millisecond ms of local day `day`
LocalIso(zone, day, ms) == ToISOString(FromLocal(zone, day, ms))
Least(S) == CHOOSE a \in S : \A b \in S : a <= b

\* C1: no invocation ever raises or rejects: every one that ends, ends with a query,
\* also for a text that matches the between/from pattern and no named range.
C1_NeverRaises == \A c \in Callers : ~Raised(c)

\* a text that matches the between/from pattern and no named range has raised
C1_Raised ==
  \E c \in Callers : Raised(c) /\ BetweenOf[inv[c].arg] /\ ~inv[c].dateRangeFound

\* C2: an input that is empty or not a string returns the default query (folder
\* INBOX, limit 20, keyword, sender, startDate and endDate unset) without raising,
\* and no extractor runs: the invocation goes from the guard straight to its return.
C2_DefaultOnInvalidInput ==
  \A c \in Callers :
    (inv[c].pc # "idle" /\ ~IsValidInput(inv[c].arg)) =>
      /\ inv[c].pc \in {"validate", "done"}
      /\ Query(c).folder = "INBOX" /\ Query(c).limit = 20
      /\ ~Query(c).keyword.set /\ ~Query(c).sender.set
      /\ ~Query(c).startDate.set /\ ~Query(c).endDate.set
      /\ ~Query(c).complexQuery
      /\ inv[c].extractedDates = <<>> /\ ~inv[c].dateRangeFound /\ inv[c].reads = NoReads

\* an invocation with an empty or non-string input has returned
C2_Witness == \E c \in Callers : Returned(c) /\ ~IsValidInput(inv[c].arg)

\* C3: whenever a returned query has both startDate and endDate set, startDate is
\* not later than endDate, whichever stage wrote the two fields.
C3_StartNotAfterEnd ==
  \A c \in Callers :
    (Returned(c) /\ Query(c).startDate.set /\ Query(c).endDate.set) =>
      IsoNotAfter(Query(c).startDate.v, Query(c).endDate.v)

\* a query built from two relative references that fall in the last second of one
\* day has returned with its startDate later than its endDate
C3_Inverted ==
  \E c \in Callers :
    /\ Returned(c) /\ Query(c).startDate.set /\ Query(c).endDate.set
    /\ ~inv[c].dateRangeFound /\ Len(inv[c].extractedDates) >= 2
    /\ ~IsoNotAfter(Query(c).startDate.v, Query(c).endDate.v)

\* the number each limit pattern matched in a text, in pattern order (0 when none)
PatternNumbers(text) ==
  [i \in 1..Len(limitPatterns) |-> ParseInt(NumPart(text, Match(text, limitPatterns[i])))]
NumbersOf == [k \in InputIds |-> PatternNumbers(Text[k])]
InLimitRange(nums) == {i \in 1..Len(nums) : nums[i] > 0 /\ nums[i] <= 100}

\* C4: the returned limit is an integer in 1..100: the number of the first limit
\* pattern, in pattern order, whose number N has 0 < N <= 100, and 20 when there is
\* none; a number outside the range is skipped, not clamped.
C4_LimitRule ==
  \A c \in Callers :
    Returned(c) =>
      /\ Query(c).limit \in 1..100
      /\ Query(c).limit =
           IF InLimitRange(NumbersOf[inv[c].arg]) = {} THEN 20
           ELSE NumbersOf[inv[c].arg][Least(InLimitRange(NumbersOf[inv[c].arg]))]

\* a query has returned whose limit comes from a later pattern, an earlier pattern
\* having matched a number above 100
C4_Witness ==
  \E c \in Callers :
    /\ Returned(c)
    /\ \E i, j \in 1..Len(limitPatterns) :
         /\ i < j /\ NumbersOf[inv[c].arg][i] > 100
         /\ NumbersOf[inv[c].arg][j] \in 1..100
         /\ Query(c).limit = NumbersOf[inv[c].arg][j]

\* C5: the returned query depends on the text (and a reference time passed with it)
\* only: two invocations with the same arguments return the same query, whatever
\* the wall-clock time at which each is made.
C5_SameTextSameQuery ==
  \A c, d \in Callers :
    (Returned(c) /\ Returned(d) /\ inv[c].arg = inv[d].arg) => Query(c) = Query(d)

\* two invocations with the same text, made one clock tick apart, have returned
\* different queries
C5_Differ ==
  \E c, d \in Callers :
    /\ Returned(c) /\ Returned(d) /\ inv[c].arg = inv[d].arg
    /\ Query(c) # Query(d)
    /\ inv[c].reads.range # inv[d].reads.range

\* the step an invocation in state L takes when it runs alone and reads the times
\* `reads` from the clock
StepAlone(L, zone, reads) ==
  CASE L.pc = "validate" -> DoValidate(L)
    [] L.pc = "folder" -> DoFolder(L)
    [] L.pc = "scan" -> DoScan(L, zone, reads.scan)
    [] L.pc = "range" -> DoRange(L, zone, reads.range)
    [] L.pc = "between" -> DoBetween(L)
    [] L.pc = "relative" -> DoRelative(L, zone, reads.relative)
    [] L.pc = "entities" -> DoEntities(L)
    [] L.pc = "fallback" -> DoFallback(L)
    [] L.pc = "limit" -> DoLimit(L)
    [] OTHER -> L
RECURSIVE RunAlone(_, _, _)
RunAlone(L, zone, reads) ==
  IF L.pc \in {"done", "error"} THEN L ELSE RunAlone(StepAlone(L, zone, reads), zone, reads)
Called(k) == [Idle EXCEPT !.pc = "validate", !.arg = k]

\* C6: under every interleaving of the steps of two invocations, each invocation
\* ends exactly as it does when it runs alone with the same text and the same clock
\* readings: no other invocation's references, cursor or partial query reach it.
C6_NoInterference ==
  \A c \in Callers :
    Ended(c) => inv[c] = RunAlone(Called(inv[c].arg), tz, inv[c].reads)

\* an invocation with dates in its query has run from its scan to its return while
\* another invocation, of a different text, was between its own scan and return
C6_Interleaved ==
  \E c, d \in Callers :
    /\ c # d /\ inv[c].arg # inv[d].arg
    /\ Returned(c) /\ Query(c).startDate.set
    /\ inv[d].pc \in {"range", "between", "relative", "entities", "fallback", "limit"}
    /\ Before(inv[d].reads.scan, inv[c].reads.scan)

\* the output of every stage-1 generator whose pattern matched (hits), at time now
RangeResults(zone, now, hits) ==
  [j \in 1..Len(hits) |->
    IF hits[j].ok THEN DateRangeHandler(zone, now, j, hits[j].n, hits[j].word) ELSE NoRange]
Matching(hits) == {j \in 1..Len(hits) : hits[j].ok}
Yielding(res) == {j \in 1..Len(res) : res[j].ok}
TakenFrom(q, r) ==
  /\ q.startDate = [set |-> TRUE, v |-> r.startDate]
  /\ q.endDate = [set |-> TRUE, v |-> r.endDate]
AfterRange(c) ==
  inv[c].pc \in {"between", "relative", "entities", "fallback", "limit", "done", "error"}
ResultsOf(c) == RangeResults(tz, inv[c].reads.range, RangeOf[inv[c].arg])
FirstYieldingTaken(q, res) ==
  Yielding(res) # {} => TakenFrom(q, res[Least(Yielding(res))])
FirstMatchingTaken(q, hits, res) ==
  Matching(hits) # {} =>
    res[Least(Matching(hits))].ok /\ TakenFrom(q, res[Least(Matching(hits))])

\* C7: once the stage-1 loop has run, if a stage-1 pattern matched and its
\* generator produced a range, startDate and endDate are exactly the output of the
\* first such entry in table order, and they stay so through the between/from
\* stage, the date scan and every later step, whatever dates the text also holds.
C7_FirstYieldingRangeKept ==
  \A c \in Callers : AfterRange(c) => FirstYieldingTaken(Query(c), ResultsOf(c))

\* a query taken from a stage-1 range has returned for a text in which the scan
\* collected two more date references
C7_Witness ==
  \E c \in Callers :
    /\ Returned(c) /\ Yielding(ResultsOf(c)) # {}
    /\ Len(inv[c].extractedDates) >= 2

\* C7 as stated: whenever any stage-1 pattern matches, startDate and endDate are the
\* output of the first matching entry in table order and no later stage changes them.
C7_FirstMatchingRangeKept ==
  \A c \in Callers :
    AfterRange(c) => FirstMatchingTaken(Query(c), RangeOf[inv[c].arg], ResultsOf(c))

\* the entry of dateRangePatterns for "N days ago" (line 1305)
DaysAgoEntry == 15
\* "N days ago" is the first stage-1 pattern that matches
DaysAgoFirst(hits) == hits[DaysAgoEntry].ok /\ \A j \in 1..(DaysAgoEntry - 1) : ~hits[j].ok
\* the local calendar day n days before the instant now
DayBefore(zone, now, n) == LocalDay(zone, now) - n
\* the query q spans exactly the local day `day`, first to last millisecond
SpansDay(q, zone, day) ==
  /\ q.startDate = [set |-> TRUE, v |-> LocalIso(zone, day, 0)]
  /\ q.endDate = [set |-> TRUE, v |-> LocalIso(zone, day, MsPerDay - 1)]
EndsBefore(q, now) == q.endDate.set /\ Before(IsoInstant(q.endDate.v), now)
DaysAgoRule(q, zone, now, n) ==
  FromLocal(zone, DayBefore(zone, now, n), 0).ok =>
    /\ SpansDay(q, zone, DayBefore(zone, now, n))
    /\ n >= 1 => EndsBefore(q, now)
DaysAgoRuleForEveryN(q, zone, now, n) ==
  SpansDay(q, zone, DayBefore(zone, now, n)) /\ EndsBefore(q, now)

\* C8: for a text whose first matching stage-1 pattern is "N days ago", when the
\* day N days before the reference time is a representable date, startDate is
\* 00:00:00.000 and endDate 23:59:59.999 of that one local calendar day, and for
\* N >= 1 the range ends before the reference time.
C8_DaysAgoIsOneDay ==
  \A c \in Callers :
    (Returned(c) /\ DaysAgoFirst(RangeOf[inv[c].arg])) =>
      DaysAgoRule(Query(c), tz, inv[c].reads.range, RangeOf[inv[c].arg][DaysAgoEntry].n)

\* a query for "N days ago" with N >= 1 has returned with both bounds set
C8_Witness ==
  \E c \in Callers :
    /\ Returned(c) /\ DaysAgoFirst(RangeOf[inv[c].arg])
    /\ RangeOf[inv[c].arg][DaysAgoEntry].n >= 1
    /\ Query(c).startDate.set /\ Query(c).endDate.set

\* C8 as stated: for every N the query spans the day N days before the reference
\* time and never reaches the reference time.
C8_DaysAgoForEveryN ==
  \A c \in Callers :
    (Returned(c) /\ DaysAgoFirst(RangeOf[inv[c].arg])) =>
      DaysAgoRuleForEveryN(Query(c), tz, inv[c].reads.range,
                           RangeOf[inv[c].arg][DaysAgoEntry].n)

BetweenJanuary == Normalize("find emails received between January 1 and January 31")
SarahInMarch ==
  Normalize("find emails from Sarah about quarterly report received in March")
\* the query q runs from the first millisecond of local day `first` to the last of `last`
SpansDays(q, zone, first, last) ==
  /\ q.startDate = [set |-> TRUE, v |-> LocalIso(zone, first, 0)]
  /\ q.endDate = [set |-> TRUE, v |-> LocalIso(zone, last, MsPerDay - 1)]
JanuaryOf(q, zone, year) ==
  SpansDays(q, zone, DaysFromCivil(year, 1, 1), DaysFromCivil(year, 1, 31))
MarchOf(q, zone, year) ==
  SpansDays(q, zone, DaysFromCivil(year, 3, 1), DaysFromCivil(year, 3, 31))

\* C9: the invocation for "find emails received between January 1 and January 31"
\* returns a query with startDate January 1 00:00:00.000 and endDate January 31
\* 23:59:59.999 of the current year.
C9_BetweenJanuary ==
  \A c \in Callers :
    (Ended(c) /\ TextOf(c) = BetweenJanuary) =>
      Returned(c) /\ JanuaryOf(Query(c), tz, GetFullYear(tz, inv[c].reads.scan))

\* the invocation for that text has raised after collecting both "january" references
C9_Raised ==
  \E c \in Callers :
    Raised(c) /\ TextOf(c) = BetweenJanuary /\ Len(inv[c].extractedDates) = 2

\* C10: the query returned for "find emails from Sarah about quarterly report
\* received in March" has startDate March 1 00:00:00.000 and endDate March 31
\* 23:59:59.999 of the year the month was resolved to, a keyword that contains
\* "quarterly report" and a sender that contains "sarah".
C10_SarahInMarch ==
  \A c \in Callers :
    (Returned(c) /\ TextOf(c) = SarahInMarch) =>
      /\ Len(inv[c].extractedDates) >= 1
      /\ MarchOf(Query(c), tz, GetFullYear(tz, inv[c].extractedDates[1].date))
      /\ Query(c).keyword.set /\ Includes(Query(c).keyword.v, "quarterly report")
      /\ Query(c).sender.set /\ Includes(Query(c).sender.v, "sarah")

\* the query for that text has returned with a startDate and no endDate
C10_OpenEnded ==
  \E c \in Callers :
    /\ Returned(c) /\ TextOf(c) = SarahInMarch
    /\ Query(c).startDate.set /\ ~Query(c).endDate.set

SpamFolderText == Normalize("show me emails in spam folder")
SubjectAndBodyText ==
  Normalize("find emails with subject containing project and body containing budget")
TopFiveText == Normalize("show me the top 5 emails from support team")
NoDates(q) == ~q.startDate.set /\ ~q.endDate.set

\* C11: the query returned for "show me emails in spam folder" has folder
\* "[Gmail]/Spam" and keyword, sender, startDate and endDate all unset.
C11_SpamFolderOnly ==
  \A c \in Callers :
    (Returned(c) /\ TextOf(c) = SpamFolderText) =>
      /\ Query(c).folder = "[Gmail]/Spam"
      /\ ~Query(c).keyword.set /\ ~Query(c).sender.set /\ NoDates(Query(c))

\* the query for that text has returned with the spam folder and the keyword "emails"
C11_KeywordEmails ==
  \E c \in Callers :
    /\ Returned(c) /\ TextOf(c) = SpamFolderText
    /\ Query(c).folder = "[Gmail]/Spam" /\ Query(c).keyword = SomeStr("emails")

\* C12: the query returned for "find emails with subject containing project and
\* body containing budget" has the keyword subject:"project" AND body:"budget"
\* and the complex-query flag set.
C12_SubjectStopsAtAnd ==
  \A c \in Callers :
    (Returned(c) /\ TextOf(c) = SubjectAndBodyText) =>
      /\ Query(c).keyword = SomeStr("subject:\"project\" AND body:\"budget\"")
      /\ Query(c).complexQuery

\* the query for that text has returned with a subject term that runs on through
\* the body clause
C12_SubjectRunsOn ==
  \E c \in Callers :
    /\ Returned(c) /\ TextOf(c) = SubjectAndBodyText /\ Query(c).complexQuery
    /\ Query(c).keyword =
         SomeStr("subject:\"project and body containing budget\" AND body:\"budget\"")

\* C13: the query returned for "show me the top 5 emails from support team" has
\* limit 5 and sender "support team"; in every returned query the limit is what
\* the limit patterns give on the normalized text and the sender what the sender
\* patterns give on the same text, neither depending on the other.
C13_LimitAndSender ==
  \A c \in Callers :
    (Returned(c) /\ IsValidInput(inv[c].arg)) =>
      /\ Query(c).limit = LimitOf[inv[c].arg]
      /\ Query(c).sender = EntitiesOf[inv[c].arg].sender
      /\ TextOf(c) = TopFiveText =>
           Query(c).limit = 5 /\ Query(c).sender = SomeStr("support team")

\* the query for that text has returned with a limit other than the default and a sender
C13_Witness ==
  \E c \in Callers :
    /\ Returned(c) /\ TextOf(c) = TopFiveText
    /\ Query(c).limit = 5 /\ Query(c).sender.set

\* the vocabulary groups in the order the claim lists them, each with its folder
FolderGroups ==
  << [terms |-> {"spam", "junk mail", "junk folder"}, folder |-> "[Gmail]/Spam"],
     [terms |-> {"sent", "outbox", "sent mail", "sent items"}, folder |-> "[Gmail]/Sent Mail"],
     [terms |-> {"draft", "drafts folder"}, folder |-> "[Gmail]/Drafts"],
     [terms |-> {"trash", "deleted", "bin"}, folder |-> "[Gmail]/Trash"],
     [terms |-> {"important", "priority"}, folder |-> "[Gmail]/Important"],
     [terms |-> {"all mail", "archive", "all emails", "everywhere"},
      folder |-> "[Gmail]/All Mail"],
     [terms |-> {"starred", "flagged"}, folder |-> "[Gmail]/Starred"] >>
GroupsIn(text) ==
  {g \in 1..Len(FolderGroups) : \E t \in FolderGroups[g].terms : Includes(text, t)}
GroupsOf == [k \in InputIds |-> GroupsIn(Text[k])]
FirstGroupFolder(groups) ==
  IF groups = {} THEN "INBOX" ELSE FolderGroups[Least(groups)].folder

\* C14: the folder of every returned query is that of the first vocabulary group,
\* in the listed order, that has a term in the text, and "INBOX" when no group has
\* one; a text naming two groups gets the folder of the earlier group.
C14_FirstGroupWins ==
  \A c \in Callers :
    (Returned(c) /\ IsValidInput(inv[c].arg)) =>
      Query(c).folder = FirstGroupFolder(GroupsOf[inv[c].arg])

\* a query has returned for a text that names two groups, with the folder of the earlier
C14_Witness ==
  \E c \in Callers :
    /\ Returned(c) /\ {1, 5} \subseteq GroupsOf[inv[c].arg]
    /\ Query(c).folder = "[Gmail]/Spam"

\* the subject-scoped and the body-scoped term of each input (lines 1953-1975)
ScopedOf ==
  [k \in InputIds |->
    [subject |-> FirstCapture(Text[k], subjectKeywordPatterns),
     body |-> FirstCapture(Text[k], bodyKeywordPatterns)]]
SubjectPart(t) == "subject:\"" \o t \o "\""
BodyPart(t) == "body:\"" \o t \o "\""
\* the composite keyword of the scoped terms sc, one of which is set
CompositeOf(sc) ==
  IF sc.subject.set /\ sc.body.set
  THEN SubjectPart(sc.subject.v) \o " AND " \o BodyPart(sc.body.v)
  ELSE IF sc.subject.set THEN SubjectPart(sc.subject.v) ELSE BodyPart(sc.body.v)
\* a string of the form subject:"<s>", body:"<b>" or subject:"<s>" AND body:"<b>"
compositeForm ==
  Cat(<<Alt(<<Cat(<<Lit("subject:\""), Plus(NotQuote), Lit("\""),
                     Opt(Cat(<<Lit(" AND body:\""), Plus(NotQuote), Lit("\"")>>))>>),
               Cat(<<Lit("body:\""), Plus(NotQuote), Lit("\"")>>)>>),
        EOS>>)
IsCompositeForm(str) == MatchAt(str, <<compositeForm>>, 0, NoCaps).ok
FlagFollowsScopedTerms(q, sc) ==
  /\ q.complexQuery <=> (sc.subject.set \/ sc.body.set)
  /\ (sc.subject.set \/ sc.body.set) => q.keyword = SomeStr(CompositeOf(sc))

FillerWords ==
  {"search", "find", "show", "look", "for", "get", "email", "emails", "message",
   "messages", "mail", "in", "inbox", "folder", "from", "before", "after", "between",
   "since", "containing", "about", "with", "related", "to", "topic", "subject"}
wordPattern == Plus(NCls(WhiteSpace \cup {",", ".", ";", ":", "!", "?"}))
WordsIn(text, ms) == {Whole(text, ms[i]) : i \in 1..Len(ms)}
WordsOf(text) == WordsIn(text, MatchAll(text, wordPattern))
\* the text holds a word of more than two characters outside the filler vocabulary
HasContent(text) == \E w \in WordsOf(text) : Len(w) > 2 /\ w \notin FillerWords
ContentOf == [k \in InputIds |-> HasContent(Text[k])]
NothingFound(q) ==
  ~q.keyword.set /\ ~q.sender.set /\ NoDates(q) /\ q.folder = "INBOX"
IsEmptyQuery(q) == NothingFound(q) /\ q.limit = DefaultLimit
\* the keyword after the fallback, given the keyword the earlier extractors found
FallbackKeyword(q, found, cleaned) ==
  IF ~found.set /\ ~q.sender.set /\ NoDates(q) /\ q.folder = "INBOX" /\ Len(cleaned) > 2
  THEN SomeStr(cleaned)
  ELSE found

\* the first half of C16: the fallback sets the keyword, to the cleaned text, exactly
\* when nothing else was found, the folder is INBOX and the cleaned text is longer
\* than two characters
FallbackWhenNothingFound ==
  \A c \in Callers :
    (Returned(c) /\ IsValidInput(inv[c].arg)) =>
      Query(c).keyword =
        FallbackKeyword(Query(c), EntitiesOf[inv[c].arg].keyword, CleanedOf[inv[c].arg])

\* C16: the cleaned-text fallback sets the keyword exactly when nothing else was
\* found and the folder is INBOX, and so no text with meaningful content returns a
\* query with keyword, sender and dates unset, folder INBOX and the default limit.
C16_ContentGivesQuery ==
  /\ FallbackWhenNothingFound
  /\ \A c \in Callers :
       (Returned(c) /\ IsValidInput(inv[c].arg) /\ ContentOf[inv[c].arg]) =>
         ~IsEmptyQuery(Query(c))

\* the query for the one-word text "tom" has returned with nothing set
C16_EmptyForName ==
  \E c \in Callers :
    Returned(c) /\ TextOf(c) = "tom" /\ Query(c) = DefaultParams

\* the range r runs from a local midnight to the last millisecond of a local day
WholeDays(r, zone) ==
  /\ LocalMs(zone, IsoInstant(r.startDate)) = 0
  /\ LocalMs(zone, IsoInstant(r.endDate)) = MsPerDay - 1
  /\ IsoNotAfter(r.startDate, r.endDate)
AllWholeDays(res, zone) == \A j \in 1..Len(res) : res[j].ok => WholeDays(res[j], zone)

FromJohnToMary == Normalize("show emails from john to mary")
\* the run of an invocation in which the between/from stage is passed over
StepPastBetween(L, zone, reads) ==
  IF L.pc = "between" THEN [L EXCEPT !.pc = "relative"] ELSE StepAlone(L, zone, reads)
RECURSIVE RunPastBetween(_, _, _)
RunPastBetween(L, zone, reads) ==
  IF L.pc \in {"done", "error"} THEN L
  ELSE RunPastBetween(StepPastBetween(L, zone, reads), zone, reads)

\* C18: when the between/from pattern matches a text in which no side holds a date,
\* the invocation returns, and returns what it would return if the between/from
\* stage had not run: both dates unset by that stage, every later extractor working
\* on the whole normalized text.
C18_AbandonedBetweenHasNoEffect ==
  \A c \in Callers :
    (Ended(c) /\ BetweenOf[inv[c].arg] /\ ~inv[c].dateRangeFound
       /\ SpecificOf[inv[c].arg] = <<>> /\ MonthOf[inv[c].arg] = <<>>) =>
      /\ Returned(c)
      /\ inv[c] = RunPastBetween(Called(inv[c].arg), tz, inv[c].reads)

\* the invocation for "show emails from john to mary", a text without any date,
\* has raised in the between/from stage
C18_Raised ==
  \E c \in Callers :
    /\ Raised(c) /\ TextOf(c) = FromJohnToMary
    /\ inv[c].extractedDates = <<>> /\ NoDates(Query(c))

Greatest(S) == CHOOSE a \in S : \A b \in S : a >= b
\* the earliest and the latest of the references refs (of equal ones, the first
\* and the last collected)
EarliestIn(refs) ==
  refs[Least({i \in 1..Len(refs) : \A j \in 1..Len(refs) : NotAfter(refs[i].date, refs[j].date)})]
LatestIn(refs) ==
  refs[Greatest({i \in 1..Len(refs) :
                  \A j \in 1..Len(refs) : NotAfter(refs[j].date, refs[i].date)})]
\* the first and the last local day of the month of the instant t
MonthStartDay(zone, t) == DaysFromCivil(GetFullYear(zone, t), GetMonth(zone, t) + 1, 1)
MonthEndDay(zone, t) ==
  IF GetMonth(zone, t) = 11 THEN DaysFromCivil(GetFullYear(zone, t) + 1, 1, 1) - 1
  ELSE DaysFromCivil(GetFullYear(zone, t), GetMonth(zone, t) + 2, 1) - 1
StartOfRefs(zone, first) ==
  IF first.isMonthOnly THEN LocalIso(zone, MonthStartDay(zone, first.date), 0)
  ELSE ToISOString(first.date)
\* 23:59:59 of the last day of the month, or of the day, of the reference
EndOfRefs(zone, last) ==
  LocalIso(zone,
           IF last.isMonthOnly THEN MonthEndDay(zone, last.date) ELSE LocalDay(zone, last.date),
           MsPerDay - 1000)
SeveralRefs(c) == ~inv[c].dateRangeFound /\ Len(inv[c].extractedDates) >= 2

OneRef(c) == ~inv[c].dateRangeFound /\ Len(inv[c].extractedDates) = 1
SaysBefore(c) == AnyIncluded(TextOf(c), BeforeWords)
SaysAfter(c) == AnyIncluded(TextOf(c), AfterWords)
\* 23:59:59.999 of the reference's day, or of the last day of its month
EndOfRef(zone, ref) ==
  LocalIso(zone,
           IF ref.isMonthOnly THEN MonthEndDay(zone, ref.date) ELSE LocalDay(zone, ref.date),
           MsPerDay - 1)
\* 00:00:00.000 of the reference's day, or of the first day of its month
StartOfRef(zone, ref) ==
  LocalIso(zone,
           IF ref.isMonthOnly THEN MonthStartDay(zone, ref.date) ELSE LocalDay(zone, ref.date),
           0)
EndOnly(c) ==
  /\ ~Query(c).startDate.set
  /\ Query(c).endDate = [set |-> TRUE, v |-> EndOfRef(tz, inv[c].extractedDates[1])]
StartOnly(c) ==
  /\ ~Query(c).endDate.set
  /\ Query(c).startDate = [set |-> TRUE, v |-> StartOfRef(tz, inv[c].extractedDates[1])]

NoDirection(c) == ~SaysBefore(c) /\ ~SaysAfter(c)
OneSpecificDay(c) ==
  /\ OneRef(c) /\ NoDirection(c)
  /\ inv[c].extractedDates[1].type = "specific"
  /\ ~inv[c].extractedDates[1].isMonthOnly
\* the local day of the one reference, from 00:00:00.000 to its millisecond `last`
IsDayOfRef(c, last) ==
  /\ Query(c).startDate =
       [set |-> TRUE, v |-> LocalIso(tz, LocalDay(tz, inv[c].extractedDates[1].date), 0)]
  /\ Query(c).endDate =
       [set |-> TRUE, v |-> LocalIso(tz, LocalDay(tz, inv[c].extractedDates[1].date), last)]

\* C21: one reference that names a specific day and no directional word give exactly
\* that day, startDate 00:00:00.000 and endDate 23:59:59.999 of it
C21_WholeDayOfReference ==
  \A c \in Callers : (Returned(c) /\ OneSpecificDay(c)) => IsDayOfRef(c, MsPerDay - 1)
\* the day returned ends at 23:59:59.000
C21_EndsASecondEarly ==
  \E c \in Callers : Returned(c) /\ OneSpecificDay(c) /\ IsDayOfRef(c, MsPerDay - 1000)

OneRelative(c) ==
  OneRef(c) /\ NoDirection(c) /\ inv[c].extractedDates[1].type = "relative"
\* C22: one reference of relative kind and no directional word set startDate to the
\* instant of the reference and leave endDate unset
C22_RelativeIsStartOnly ==
  \A c \in Callers :
    (Returned(c) /\ OneRelative(c)) =>
      /\ Query(c).startDate = SomeIso(inv[c].extractedDates[1].date)
      /\ ~Query(c).endDate.set
C22_Witness ==
  \E c \in Callers :
    /\ Returned(c) /\ OneRelative(c)
    /\ Query(c).startDate.set /\ ~Query(c).endDate.set

(***************************************************************************)
(* Weekday names, lines 1408-1446                                          *)
(***************************************************************************)
\* the entry of dateRangePatterns for the weekday names (line 1410)
WeekdayEntry == 20
\* the weekday entry is the first stage-1 entry that yields a range
WeekdayTaken(res) == Yielding(res) # {} /\ Least(Yielding(res)) = WeekdayEntry
\* the weekday of a day counted from 1970-01-01, 0 for Sunday
WeekdayOfDay(day) == (day + 4) % 7
WeekdayRule(q, zone, now, word) ==
  \E back \in 1..7 :
    /\ SpansDay(q, zone, LocalDay(zone, now) - back)
    /\ WeekdayOfDay(LocalDay(zone, now) - back) = targetDay(word)
    /\ WeekdayOfDay(LocalDay(zone, now)) = targetDay(word) => back = 7

\* C23: a weekday name resolves to one full local day that falls on that weekday,
\* 1 to 7 days before the reference day, and 7 days before it when the reference
\* day is that weekday
C23_MostRecentPastWeekday ==
  \A c \in Callers :
    (Returned(c) /\ WeekdayTaken(ResultsOf(c))) =>
      WeekdayRule(Query(c), tz, inv[c].reads.range, RangeOf[inv[c].arg][WeekdayEntry].word)
\* a weekday name has been resolved on a reference day of that same weekday
C23_Witness ==
  \E c \in Callers :
    /\ Returned(c) /\ WeekdayTaken(ResultsOf(c))
    /\ WeekdayOfDay(LocalDay(tz, inv[c].reads.range))
         = targetDay(RangeOf[inv[c].arg][WeekdayEntry].word)
    /\ SpansDay(Query(c), tz, LocalDay(tz, inv[c].reads.range) - 7)

(***************************************************************************)
(* The ranges of fixed length, lines 1210-1251                             *)
(***************************************************************************)
\* the query q runs from the start of the local day `back` days before now to the end
\* of the local day of now
SpansBack(q, zone, now, back) ==
  /\ q.startDate = [set |-> TRUE, v |-> LocalIso(zone, LocalDay(zone, now) - back, 0)]
  /\ q.endDate = [set |-> TRUE, v |-> LocalIso(zone, LocalDay(zone, now), MsPerDay - 1)]
RecentlyText == Normalize("recently")
FewWeeksText == Normalize("last few weeks")
FewMonthsText == Normalize("last few months")
RecentWeeksText == Normalize("recent weeks")
SpansBackFor(c, text, back) ==
  (Returned(c) /\ TextOf(c) = text) => SpansBack(Query(c), tz, inv[c].reads.range, back)

\* C24: "recently" starts 7 days before the reference day, "last few weeks" and
\* "recent weeks" 21 days before it and "last few months" 90 days before it, each
\* ending at the end of the reference day
C24_FixedDayCounts ==
  \A c \in Callers :
    /\ SpansBackFor(c, RecentlyText, 7)
    /\ SpansBackFor(c, FewWeeksText, 21)
    /\ SpansBackFor(c, RecentWeeksText, 21)
    /\ SpansBackFor(c, FewMonthsText, 90)
\* the query of "recent weeks" has returned with the 7-day range
C24_RecentWeeksIsSevenDays ==
  \E c \in Callers :
    /\ Returned(c) /\ TextOf(c) = RecentWeeksText
    /\ SpansBack(Query(c), tz, inv[c].reads.range, 7)

(***************************************************************************)
(* The sender, lines 1977-2010                                             *)
(***************************************************************************)
\* C25: a sender that is set is no stopword and has more than 2 characters
C25_SenderIsMeaningful ==
  \A c \in Callers :
    (Returned(c) /\ Query(c).sender.set) =>
      /\ Len(Query(c).sender.v) > 2
      /\ ToLowerCase(Query(c).sender.v) \notin stopWords
\* a query has returned with a sender of two characters
C25_ShortSender ==
  \E c \in Callers :
    /\ Returned(c) /\ Query(c).sender.set
    /\ Len(Query(c).sender.v) = 2
    /\ Query(c).sender = ExtractSender(TextOf(c))

(***************************************************************************)
(* searchEmails, lines 359-769, on the remote path.  An email is a record  *)
(* of the fields the filters read; "" stands for a field that is absent,   *)
(* and a date field holds the Date that new Date(field) gives.             *)
(***************************************************************************)
NoField == [set |-> FALSE, v |-> InvalidDate]
DateField(y, m, d, ms) == [set |-> TRUE, v |-> MkInstant(DaysFromCivil(y, m, d), ms)]
BlankEmail ==
  [subject |-> "", body |-> "", snippet |-> "", fromText |-> "", fromAddress |-> "",
   fromName |-> "", sender |-> "", headersFrom |-> "", headersSubject |-> "",
   date |-> NoField, receivedAt |-> NoField, internalDate |-> NoField, headersDate |-> NoField]
KickoffMail ==
  [BlankEmail EXCEPT !.subject = "Project kickoff", !.body = "The BUDGET is attached",
                     !.fromText = "Sarah Lee <sarah@corp.com>", !.fromAddress = "sarah@corp.com",
                     !.fromName = "Sarah Lee", !.date = DateField(2024, 1, 5, MsPerDay \div 2)]
LastMomentMail ==
  [BlankEmail EXCEPT !.subject = "Project plan", !.body = "notes", !.fromAddress = "bob@x.org",
                     !.date = DateField(2024, 1, 5, MsPerDay - 1)]
FirstMomentMail ==
  [BlankEmail EXCEPT !.subject = "project budget", !.body = "budget figures",
                     !.headersFrom = "SARAH@CORP.COM", !.receivedAt = DateField(2024, 1, 5, 0)]
NextDayMail ==
  [BlankEmail EXCEPT !.subject = "Project", !.body = "Budget", !.fromName = "Sarah",
                     !.internalDate = DateField(2024, 1, 6, 0)]
UndatedMail ==
  [BlankEmail EXCEPT !.subject = "hello", !.snippet = "budget", !.sender = "sarah",
                     !.date = [set |-> TRUE, v |-> InvalidDate]]
\* what fetchEmailsFromFolder may return (lines 395-400)
Mailboxes ==
  { <<>>,
    <<KickoffMail, LastMomentMail, FirstMomentMail, NextDayMail, UndatedMail>>,
    <<UndatedMail, NextDayMail, FirstMomentMail, LastMomentMail, KickoffMail>> }

\* lines 445-448
isComplexQuery(searchOptions) ==
  \/ searchOptions.complexQuery
  \/ Includes(searchOptions.keyword.v, "subject:")
  \/ Includes(searchOptions.keyword.v, "body:")
\* /field:"([^"]+)"/i and /field:(\S+)/i
quotedTerm(field) == Cat(<<Lit(field), Lit(":\""), Grp(1, Plus(NCls({"\""}))), Lit("\"")>>)
bareTerm(field) == Cat(<<Lit(field), Lit(":"), Grp(1, Plus(NCls(WhiteSpace)))>>)
FirstTerm(lower, quoted, bare) ==
  IF quoted.ok THEN SomeStr(Group(lower, quoted, 1))
  ELSE IF bare.ok THEN SomeStr(Group(lower, bare, 1))
  ELSE NullStr
\* lines 454-464: the lower-cased term of one field; the patterns ignore case
TermOf(keyword, field) ==
  FirstTerm(ToLowerCase(keyword), Match(ToLowerCase(keyword), quotedTerm(field)),
            Match(ToLowerCase(keyword), bareTerm(field)))
\* field && typeof field === "string" && field.toLowerCase().includes(term)
HasText(field, term) == field # "" /\ Includes(ToLowerCase(field), term)
\* a variant in which either scoped term is enough
ComplexMatchesEither(email, generalKeyword, subjectTerm, bodyTerm) ==
  \/ subjectTerm.set /\ HasText(email.subject, subjectTerm.v)
  \/ bodyTerm.set /\ HasText(email.body, bodyTerm.v)
\* lines 471-531
ComplexMatches(email, generalKeyword, subjectTerm, bodyTerm) ==
  IF ~subjectTerm.set /\ ~bodyTerm.set
  THEN HasText(email.subject, generalKeyword) \/ HasText(email.body, generalKeyword)
  ELSE /\ subjectTerm.set => HasText(email.subject, subjectTerm.v)
       /\ bodyTerm.set => HasText(email.body, bodyTerm.v)
\* lines 532-599
StandardMatches(email, keywordLower) ==
  \/ HasText(email.subject, keywordLower)
  \/ HasText(email.body, keywordLower)
  \/ HasText(email.snippet, keywordLower)
  \/ HasText(email.fromText, keywordLower)
  \/ HasText(email.fromAddress, keywordLower)
  \/ HasText(email.sender, keywordLower)
  \/ HasText(email.headersSubject, keywordLower)
\* lines 441-600
KeywordMatches(email, searchOptions) ==
  IF ~searchOptions.keyword.set \/ searchOptions.keyword.v = "" THEN TRUE
  ELSE IF isComplexQuery(searchOptions)
  THEN ComplexMatches(email, ToLowerCase(searchOptions.keyword.v),
                      TermOf(searchOptions.keyword.v, "subject"),
                      TermOf(searchOptions.keyword.v, "body"))
  ELSE StandardMatches(email, ToLowerCase(searchOptions.keyword.v))
\* lines 613-622: the first date field that is present
emailDate(email) ==
  IF email.date.set THEN email.date
  ELSE IF email.receivedAt.set THEN email.receivedAt
  ELSE IF email.internalDate.set THEN email.internalDate
  ELSE email.headersDate
\* lines 603-649
StartMatches(email, startDate) ==
  IF ~startDate.set \/ ~IsoInstant(startDate.v).ok THEN TRUE
  ELSE /\ emailDate(email).set /\ emailDate(email).v.ok
       /\ NotAfter(IsoInstant(startDate.v), emailDate(email).v)
\* lines 651-697
EndMatches(email, endDate) ==
  IF ~endDate.set \/ ~IsoInstant(endDate.v).ok THEN TRUE
  ELSE /\ emailDate(email).set /\ emailDate(email).v.ok
       /\ NotAfter(emailDate(email).v, IsoInstant(endDate.v))
\* lines 700-753
SenderMatches(email, sender) ==
  IF ~sender.set \/ sender.v = "" THEN TRUE
  ELSE \/ HasText(email.fromText, ToLowerCase(sender.v))
       \/ HasText(email.fromAddress, ToLowerCase(sender.v))
       \/ HasText(email.fromName, ToLowerCase(sender.v))
       \/ HasText(email.sender, ToLowerCase(sender.v))
       \/ HasText(email.headersFrom, ToLowerCase(sender.v))
\* Array.prototype.slice(0, n)
Slice(xs, n) ==
  IF n >= 0 THEN SubSeq(xs, 1, IF n < Len(xs) THEN n ELSE Len(xs))
  ELSE SubSeq(xs, 1, IF Len(xs) + n > 0 THEN Len(xs) + n ELSE 0)
\* lines 413-762: the four filters in turn, then the cap
filteredEmails(emails, searchOptions) ==
  SelectSeq(
    SelectSeq(
      SelectSeq(
        SelectSeq(emails, LAMBDA email : KeywordMatches(email, searchOptions)),
        LAMBDA email : StartMatches(email, searchOptions.startDate)),
      LAMBDA email : EndMatches(email, searchOptions.endDate)),
    LAMBDA email : SenderMatches(email, searchOptions.sender))
finalResults(emails, searchOptions) ==
  Slice(filteredEmails(emails, searchOptions), searchOptions.limit)

\* the queries handed to searchEmails: every combination of a plain or composite
\* keyword, a sender, the two bounds of 2024-01-05 and a limit
SearchLimits == {1, 2, DefaultLimit}
ScopedChoices ==
  [subject : {NullStr, SomeStr("project")}, body : {NullStr, SomeStr("budget")}]
QueryKeywords ==
  {ComposeKeyword(sc.subject, sc.body, general) :
     sc \in ScopedChoices, general \in {NullStr, SomeStr("Budget")}}
SearchQueries ==
  { [keyword |-> k.keyword, complexQuery |-> k.complexQuery, sender |-> who,
     startDate |-> from, endDate |-> to, folder |-> "INBOX", limit |-> cap] :
      k \in QueryKeywords, who \in {NullStr, SomeStr("Sarah")},
      from \in {NullIso, SomeIso(MkInstant(DaysFromCivil(2024, 1, 5), 0))},
      to \in {NullIso, SomeIso(MkInstant(DaysFromCivil(2024, 1, 5), MsPerDay - 1))},
      cap \in SearchLimits }

SearchIdle == [pc |-> "idle", searchOptions |-> DefaultParams, emails |-> <<>>, found |-> <<>>]
\* lines 359-387: the call; searchLocal is not set, so the remote path is taken
Search(c, searchOptions) ==
  /\ inv[c].pc = "idle"
  /\ inv' = [inv EXCEPT ![c] = [SearchIdle EXCEPT !.pc = "fetch", !.searchOptions = searchOptions]]
  /\ UNCHANGED <<clock, ticks, tz>>
\* lines 389-410: the fetch; an empty mailbox returns at once
Fetch(c, emails) ==
  /\ inv[c].pc = "fetch"
  /\ inv' = [inv EXCEPT ![c].pc = IF emails = <<>> THEN "returned" ELSE "filter",
                        ![c].emails = emails]
  /\ UNCHANGED <<clock, ticks, tz>>
\* lines 412-764
FilterAndCap(c) ==
  /\ inv[c].pc = "filter"
  /\ inv' = [inv EXCEPT ![c].pc = "returned",
                        ![c].found = finalResults(inv[c].emails, inv[c].searchOptions)]
  /\ UNCHANGED <<clock, ticks, tz>>
\* the caller takes the list
TakeResults(c) ==
  /\ inv[c].pc = "returned"
  /\ inv' = [inv EXCEPT ![c] = SearchIdle]
  /\ UNCHANGED <<clock, ticks, tz>>
InitSearch ==
  /\ clock = YearEnd
  /\ ticks = 0
  /\ tz = 0
  /\ inv = [c \in {1} |-> SearchIdle]
NextSearch ==
  \/ \E c \in DOMAIN inv, searchOptions \in SearchQueries : Search(c, searchOptions)
  \/ \E c \in DOMAIN inv, emails \in Mailboxes : Fetch(c, emails)
  \/ \E c \in DOMAIN inv : FilterAndCap(c)
  \/ \E c \in DOMAIN inv : TakeResults(c)
SpecSearch == InitSearch /\ [][NextSearch]_vars

(***************************************************************************)
(* Properties of searchEmails                                              *)
(***************************************************************************)
Searched(c) == inv[c].pc = "returned"
\* the instant of an ISO bound lies at or before (after) the email's timestamp
InBounds(email, q) ==
  /\ q.startDate.set =>
       emailDate(email).v.ok /\ NotAfter(IsoInstant(q.startDate.v), emailDate(email).v)
  /\ q.endDate.set =>
       emailDate(email).v.ok /\ NotAfter(emailDate(email).v, IsoInstant(q.endDate.v))
FromFields(email) ==
  {email.fromText, email.fromAddress, email.fromName, email.sender, email.headersFrom}
IsFrom(email, q) ==
  q.sender.set =>
    \E field \in FromFields(email) : Includes(ToLowerCase(field), ToLowerCase(q.sender.v))
\* for the composite keyword of the scoped terms sc, the subject holds the subject
\* term and the body holds the body term
HoldsTerms(email, q, sc) ==
  (q.complexQuery /\ (sc.subject.set \/ sc.body.set) /\ q.keyword = SomeStr(CompositeOf(sc))) =>
    /\ sc.subject.set => Includes(ToLowerCase(email.subject), sc.subject.v)
    /\ sc.body.set => Includes(ToLowerCase(email.body), sc.body.v)
Satisfies(email, q) ==
  /\ InBounds(email, q)
  /\ IsFrom(email, q)
  /\ \A sc \in ScopedChoices : HoldsTerms(email, q, sc)

\* C26: the list searchEmails returns has at most limit entries, and each of them
\* lies within the inclusive date bounds of the query, has the sender in one of its
\* from fields whatever the case, and for a composite keyword holds the subject term
\* in its subject and the body term in its body
C26_ResultsSatisfyQuery ==
  \A c \in Callers :
    Searched(c) =>
      /\ Len(inv[c].found) <= inv[c].searchOptions.limit
      /\ \A i \in 1..Len(inv[c].found) : Satisfies(inv[c].found[i], inv[c].searchOptions)
\* a query with every filter set has returned one of the several emails that satisfy it,
\* cut at its limit
C26_Witness ==
  \E c \in Callers :
    /\ Searched(c)
    /\ inv[c].searchOptions.complexQuery /\ inv[c].searchOptions.sender.set
    /\ inv[c].searchOptions.startDate.set /\ inv[c].searchOptions.endDate.set
    /\ Len(inv[c].found) = inv[c].searchOptions.limit
    /\ Len(filteredEmails(inv[c].emails, inv[c].searchOptions)) > Len(inv[c].found)

(***************************************************************************)
(* Properties of parseVoiceSearchQuery, continued                          *)
(***************************************************************************)
HasRelativeRef(c) ==
  \E i \in 1..Len(inv[c].extractedDates) : inv[c].extractedDates[i].type = "relative"
\* C27: a relative reference is collected only when no stage-1 range was found although
\* a stage-1 pattern matched, that is when every matching stage-1 handler failed
C27_RelativeOnlyAfterFailedRange ==
  \A c \in Callers :
    HasRelativeRef(c) =>
      /\ ~inv[c].dateRangeFound
      /\ Matching(RangeOf[inv[c].arg]) # {}
      /\ Yielding(ResultsOf(c)) = {}
C27_Witness ==
  \E c \in Callers :
    /\ Returned(c) /\ HasRelativeRef(c)
    /\ Matching(RangeOf[inv[c].arg]) # {} /\ Yielding(ResultsOf(c)) = {}
\* C27 as stated: no relative reference is ever collected
C27_NoRelativeReference == \A c \in Callers : ~HasRelativeRef(c)

LastThreeDaysText == Normalize("last 3 days")
\* C28: the N of "last N days" is not taken as a limit: the query of "last 3 days"
\* keeps the default limit and carries the range of the last 3 days
C28_TimePhraseKeepsLimit ==
  \A c \in Callers :
    (Returned(c) /\ TextOf(c) = LastThreeDaysText) =>
      /\ Query(c).limit = DefaultLimit
      /\ SpansBack(Query(c), tz, inv[c].reads.range, 3)
\* the query of "last 3 days" has returned with the 3-day range and limit 3
C28_LimitFromTimePhrase ==
  \E c \in Callers :
    /\ Returned(c) /\ TextOf(c) = LastThreeDaysText
    /\ SpansBack(Query(c), tz, inv[c].reads.range, 3)
    /\ Query(c).limit = 3

OneWrittenDate == Normalize("1/5/2024")
\* C29: a date written once gives one reference: the scan of "1/5/2024" collects
\* exactly one
C29_OneReferencePerDate ==
  \A c \in Callers :
    (Returned(c) /\ TextOf(c) = OneWrittenDate) => Len(inv[c].extractedDates) = 1
\* the query of "1/5/2024" has returned from two references, 2020-01-05 and
\* 2024-01-05, as a range of four years
C29_CountedTwice ==
  \E c \in Callers :
    /\ Returned(c) /\ TextOf(c) = OneWrittenDate
    /\ Len(inv[c].extractedDates) = 2
    /\ Query(c).startDate = [set |-> TRUE, v |-> LocalIso(tz, DaysFromCivil(2020, 1, 5), 0)]
    /\ Query(c).endDate =
         [set |-> TRUE, v |-> LocalIso(tz, DaysFromCivil(2024, 1, 5), MsPerDay - 1000)]

\* the text holds "from" and the query has a sender
FromIntroducesSender(c) == Includes(TextOf(c), "from") /\ Query(c).sender.set
====
